---- MODULE Spec2Model ----
(***************************************************************************)
(* A model of the iwexchanger bot (src/iwexchanger/bot.py, model.py,       *)
(* cli.py): the rows of the peewee tables, the conversation dictionary of  *)
(* the Bot object and the handlers that read and write them.               *)
(*                                                                         *)
(* A handler is one action when it holds no await between its reads and    *)
(* its writes; a handler that awaits in between (a notification sent by    *)
(* to_menu or send_message) is a begin action, which stores the objects    *)
(* the coroutine holds in memory in "tasks", and a finish action, which    *)
(* saves them: peewee's save() writes every column of the instance, so a   *)
(* finish writes back the values read at the begin.                        *)
(***************************************************************************)
EXTENDS Integers, Sequences, FiniteSets, TLC

\* ---------------------------------------------------------------- bounds
NUsers == 4
MaxTrades == 1
MaxExchanges == 2
MaxDisputes == 1
MaxTasks == 2
MaxPrice == 4
MaxRulings == 2
MaxRestrictions == 2
MaxDays == 2
MaxNow == 3
MaxMessages == 2
MaxListings == 6
NRecipients == 3
DaySeconds == 24
SanityDrop == 20
DearPrice == 700

\* ------------------------------------------------------- program constants
\* TradeStatus
PENDING == 10
CHECKING == 20
LAUNCHED == 30
SOLD == 50
TIMEDOUT == 60
DISPUTED == 70
VIOLATION == 80
\* ExchangeStatus (LAUNCHED == 10, ACCEPTED == 20, DECLINED == 30, DISPUTED == 50)
E_LAUNCHED == 10
E_ACCEPTED == 20
E_DECLINED == 30
\* DisputeType
TRADE_NOT_AS_DESCRIPTION == 10
TRADE_NO_GOOD == 20
EXCHANGE_NOT_AS_DESCRIPTION == 50
EXCHANGE_NO_GOOD == 60
D_VIOLATION == 100
\* User defaults and the thresholds of the handlers
DefaultCoins == 0
DefaultSanity == 100
MaxSanity == 100
ViolationPenalty == 30
ReportInfluence == 10
ReportMinSanity == 70
CheckSanity == 90
LaunchLimit == 5
GuideSanity == 60
ScanSleep == 10
AcceptExtraPenalty == 10
BuyerDivisor == 20
BuyerFloor == 3
SellerDivisor == 5
SellerFloor == 5
MinInfluenceBase == 10
NameLimit == 20
DescLimit == 100
PriceCapBase == 1000
SanityScale == 100
CapExponent == 10

\* ------------------------------------------------------------ identities
System == 0
Admin == System + 1
Seller == Admin + 1
Users == 1..NUsers
Ids == 0..NUsers
Sellers == {Seller}
Buyers == {u \in Users : u > Seller}
\* the listings a seller drafts: under revision, priced, with a photo
Drafts == {[coins |-> 0, revision |-> TRUE, photo |-> FALSE],
           [coins |-> MaxPrice, revision |-> FALSE, photo |-> FALSE],
           [coins |-> 0, revision |-> FALSE, photo |-> TRUE]}

LevelNames == {"system", "user"}
UserFields == {"view_trades", "add_trade", "exchange", "community"}
FieldNames == UserFields \cup {"all", "admin", "admin_user", "admin_admin", "admin_trade"}

VARIABLES
    users,          \* User rows: uid -> [coins, sanity]
    trades,         \* Trade rows: id -> [user, coins, revision, photo, status, deleted, available, url]
    exchanges,      \* Exchange rows: id -> [user, trade, coins, status]
    disputes,       \* Dispute rows: id -> [trade, user, type, influence, live, rulings]
    blacklist,      \* BlackList rows: {<<by, of>>}
    levels,         \* User.levels: uid -> set of level names
    fields,         \* UserLevel.fields: level name -> set of field names
    restrictions,   \* Restriction rows: sequence of [user, to, fields]
    now,            \* datetime.now(), in days
    tasks,          \* coroutines suspended at an await, with the objects they hold
    conversation,   \* Bot._user_conversion: uid -> Conversation or None
    answer,         \* the reply of the last handler to its caller
    log,            \* Log rows committed by the last handler call
    user_messages,  \* Bot._user_messages: message id -> [to, from_user, trade]
    clock,          \* datetime.now() of the control bot, in seconds of the day
    settings,       \* MessageSettings rows: user -> [time, enabled], and member,
                    \* whether the role of the user is MEMBER or higher
    messages,       \* Message rows: sequence of [user, read]
    reload,         \* ControlBot._reload, an asyncio.Event
    watch,          \* the coroutine ControlBot.watch: its position and locals
    sent            \* the menus __daily_message_list sent: [uid, messages_id]

vars == <<users, trades, exchanges, disputes, blacklist, levels, fields,
          restrictions, now, tasks, conversation, answer, log,
          user_messages, clock, settings, messages,
          reload, watch, sent>>
ledger == <<users, trades, exchanges, disputes, blacklist>>
capability == <<levels, fields, restrictions, now>>
control == <<clock, settings, messages, reload, watch, sent>>

\* ------------------------------------------------------------- arithmetic
Max(a, b) == IF a >= b THEN a ELSE b
Min(a, b) == IF a <= b THEN a ELSE b

\* math.sqrt, by its integer part
ISqrt(n) == CHOOSE r \in 0..n : r * r <= n /\ (r + 1) * (r + 1) > n
IsSquare(n) == ISqrt(n) * ISqrt(n) = n
CeilSqrt(n) == IF IsSquare(n) THEN ISqrt(n) ELSE ISqrt(n) + 1

\* IntegerField.adapt is int(): a float is cut towards zero when it is saved.
\* The value is base + q with q in [fl, fl + 1), and q = fl when exact.
TruncSum(base, fl, exact) ==
    IF exact \/ base + fl >= 0 THEN base + fl ELSE base + fl + 1

\* int(n / 2) for the float n / 2
TruncHalf(n) == IF n >= 0 THEN n \div 2 ELSE 0 - ((0 - n) \div 2)

\* -------------------------------------------------------------- capability
RECURSIVE SetToSeq(_)
SetToSeq(S) ==
    IF S = {} THEN <<>>
    ELSE LET x == CHOOSE y \in S : TRUE IN <<x>> \o SetToSeq(S \ {x})

\* the inner loop of either half of user_has_field: some f is "all" or the field
RECURSIVE names_field(_, _)
names_field(fs, field) ==
    IF fs = <<>> THEN FALSE
    ELSE IF Head(fs) = "all" THEN TRUE
    ELSE IF Head(fs) = field THEN TRUE
    ELSE names_field(Tail(fs), field)

\* restrictions that count until the end of their last day
restrictions_to_date(u) ==
    SelectSeq(restrictions, LAMBDA r : r.user = u /\ r.to >= now)

\* user.restrictions.where(Restriction.to > datetime.now())
active_restrictions(u) ==
    SelectSeq(restrictions, LAMBDA r : r.user = u /\ r.to > now)

RECURSIVE restricted(_, _)
restricted(rs, field) ==
    IF rs = <<>> THEN FALSE
    ELSE IF names_field(SetToSeq(Head(rs).fields), field) THEN TRUE
    ELSE restricted(Tail(rs), field)

RECURSIVE granted(_, _)
granted(ls, field) ==
    IF ls = <<>> THEN FALSE
    ELSE IF names_field(SetToSeq(fields[Head(ls)]), field) THEN TRUE
    ELSE granted(Tail(ls), field)

user_has_field(u, field) ==
    IF restricted(active_restrictions(u), field) THEN FALSE
    ELSE granted(SetToSeq(levels[u]), field)

\* ------------------------------------------------------------------ ledger
TradeIds == DOMAIN trades
ExchangeIds == DOMAIN exchanges
DisputeIds == DOMAIN disputes

\* a Dispute row after delete_instance; rulings is no column: it counts the
\* rulings an administrator's handler has applied to the row, for the properties
Deleted(n) == [trade |-> 0, user |-> 0, type |-> 0, influence |-> 0,
               live |-> FALSE, rulings |-> n]

\* Dispute.get_by_id finds the row
dispute_exists(d) == d \in DisputeIds /\ disputes[d].live

\* min(sanity + max(sqrt(max(coins, 10)) / k, floor), 100), as it is saved
sanity_reward(sanity, coins, k, floor) ==
    LET m == Max(coins, MinInfluenceBase)
        above == m > (floor * k) * (floor * k)
        fl == IF above THEN ISqrt(m) \div k ELSE floor
        exact == IF above THEN IsSquare(m) /\ ISqrt(m) % k = 0 ELSE TRUE
    IN Min(TruncSum(sanity, fl, exact), MaxSanity)

\* max(sanity - sqrt(max(coins, 10)), 0), as it is saved
sanity_after_report(sanity, coins) ==
    Max(sanity - CeilSqrt(Max(coins, MinInfluenceBase)), 0)

\* influence=sqrt(max(t.coins, 10)), as it is saved
dispute_influence(coins) == ISqrt(Max(coins, MinInfluenceBase))

\* a check that refuses nobody
open_to_all(t, u) == "none"

\* check_trade, lines 989-998
check_trade(t, u) ==
    IF t.status # LAUNCHED THEN "not launched"
    ELSE IF t.status # LAUNCHED /\ t.available > now THEN "not available"
    ELSE IF t.deleted THEN "deleted"
    ELSE IF <<t.user, u>> \in blacklist THEN "blacklisted"
    ELSE "none"

\* a listing that nothing sends to review
requires_no_check(t) == FALSE

\* trade_requires_check, lines 1385-1394: url is url_pattern.search on name,
\* description and exchange
trade_requires_check(t) ==
    \/ t.photo
    \/ t.url
    \/ users[t.user].sanity < CheckSanity

launch_status(u, t) ==
    IF ~user_has_field(u, "admin_trade") /\ trade_requires_check(t)
    THEN CHECKING ELSE LAUNCHED

NoRow == [none |-> TRUE]

\* ------------------------------------------------------------ conversation
\* no Conversation is stored under the key
NoConv == [status |-> "None", params |-> <<>>]

\* dict.update: the keys of kw are set, the others keep their values
update(params, kw) ==
    IF DOMAIN kw = {} THEN params
    ELSE [k \in DOMAIN params \cup DOMAIN kw |->
             IF k \in DOMAIN kw THEN kw[k] ELSE params[k]]

\* a dict that replaces every parameter gathered so far
set_conversation_anew(c, u, status, params, kw) ==
    [c EXCEPT ![u] = IF status = "None" THEN NoConv
                     ELSE [status |-> status, params |-> update(params, kw)]]

\* set_conversation on the dict c = _user_conversion: params is the dict given
\* or, when that is empty or missing, the dict of the current Conversation,
\* updated with kw
set_conversation(c, u, status, params, kw) ==
    LET current_params == c[u].params
        given == IF DOMAIN params = {} THEN current_params ELSE params
    IN [c EXCEPT ![u] = IF status = "None" THEN NoConv
                        ELSE [status |-> status, params |-> update(given, kw)]]

\* a wrapper that leaves the Conversation as it is
kept(u) == conversation

\* the wrapper of a handler declared without conversation=True, line 175
cleared(u) == set_conversation(conversation, u, "None", <<>>, <<>>)
useroper(u) == conversation' = cleared(u)

Task(kind, t, tobj, e, eobj, d, dobj, a, aobj, b, bobj) ==
    [kind |-> kind, t |-> t, tobj |-> tobj, e |-> e, eobj |-> eobj,
     d |-> d, dobj |-> dobj, a |-> a, aobj |-> aobj, b |-> b, bobj |-> bobj]
RemoveAt(s, i) == SubSeq(s, 1, i - 1) \o SubSeq(s, i + 1, Len(s))

\* ---------------------------------------------------------------- listings
\* parameters["trade_start_time"] or datetime.now(), lines 1250 and 1265: start
\* is <<>> for None, which is what the wizard always hands over (the button of
\* line 1104 passes None and the stage of line 655 raises)
available_from(start) == IF start = <<>> THEN now ELSE start[1]

\* on_trade_revision for a new listing, lines 1256-1282; url tells whether
\* the name, the description or the text of the wanted item holds a URL
on_trade_revision_create(u, c, rev, photo, url) ==
    /\ u \in Sellers
    /\ user_has_field(u, "add_trade")
    /\ LET t == [user |-> u, coins |-> c, revision |-> rev, photo |-> photo,
                 status |-> PENDING, deleted |-> FALSE,
                 available |-> available_from(<<>>), url |-> url]
       IN trades' = Append(trades, [t EXCEPT !.status = launch_status(u, t)])
    /\ answer' = "ok"
    /\ useroper(u)
    /\ UNCHANGED <<users, exchanges, disputes, blacklist, capability, tasks>>
    /\ UNCHANGED <<user_messages, control>>
    /\ log' = <<"add a trade", "launch a trade">>

\* the same with texts that hold no URL, while the table of listings has room
on_trade_revision(u, c, rev, photo) ==
    /\ Len(trades) < MaxTrades
    /\ on_trade_revision_create(u, c, rev, photo, FALSE)

\* the launched listings of u that are not deleted, lines 1433-1438
launched_of(u) ==
    Cardinality({t \in TradeIds : /\ trades[t].status = LAUNCHED
                                  /\ ~trades[t].deleted
                                  /\ trades[t].user = u})

\* on_new_trade_guide, lines 1199-1211: the wizard is not offered
new_trade_refused(u) ==
    \/ users[u].sanity < GuideSanity
    \/ launched_of(u) > LaunchLimit

on_launch(u, t) ==
    /\ t \in TradeIds
    /\ u = trades[t].user
    /\ IF trades[t].status >= SOLD \/ trades[t].deleted
       THEN answer' = "refused" /\ UNCHANGED trades
       ELSE IF trades[t].status = PENDING
       THEN IF ~user_has_field(u, "add_trade")
            THEN answer' = "refused" /\ UNCHANGED trades
            ELSE IF launched_of(u) > LaunchLimit
            THEN answer' = "refused" /\ UNCHANGED trades
            ELSE /\ trades' = [trades EXCEPT ![t].status = launch_status(u, trades[t])]
                 /\ answer' = "ok"
       ELSE /\ trades' = [trades EXCEPT ![t].status = PENDING]
            /\ answer' = "ok"
    /\ useroper(u)
    /\ UNCHANGED <<users, exchanges, disputes, blacklist, capability, tasks>>
    /\ UNCHANGED <<user_messages, control>>
    /\ log' = IF answer' # "ok" THEN <<>>
               ELSE IF trades[t].status = PENDING THEN <<"launch a trade">>
               ELSE <<"unlaunch a trade">>

on_checked(a, t) ==
    /\ t \in TradeIds
    /\ user_has_field(a, "admin_trade")
    /\ IF trades[t].deleted \/ trades[t].status > CHECKING
       THEN answer' = "refused" /\ UNCHANGED trades
       ELSE trades' = [trades EXCEPT ![t].status = LAUNCHED] /\ answer' = "ok"
    /\ useroper(a)
    /\ UNCHANGED <<users, exchanges, disputes, blacklist, capability, tasks>>
    /\ UNCHANGED <<user_messages, control>>
    /\ log' = IF answer' = "ok" THEN <<"check trade">> ELSE <<>>

\* on_checked when send_message of line 1883 raises inside db.atomic(): the
\* transaction of lines 1877-1886 is rolled back and the wrapper answers
on_checked_failed(a, t) ==
    /\ t \in TradeIds
    /\ user_has_field(a, "admin_trade")
    /\ ~trades[t].deleted /\ trades[t].status <= CHECKING
    /\ answer' = "error"
    /\ useroper(a)
    /\ UNCHANGED <<ledger, capability, tasks>>
    /\ UNCHANGED <<user_messages, control>>
    /\ log' = <<>>

on_violation(a, t) ==
    /\ t \in TradeIds
    /\ user_has_field(a, "admin_trade")
    /\ users[trades[t].user].sanity - ViolationPenalty >= 0 - SanityDrop
    /\ trades' = [trades EXCEPT ![t].status = VIOLATION]
    /\ users' = [users EXCEPT ![trades[t].user].sanity = @ - ViolationPenalty]
    /\ answer' = "ok"
    /\ useroper(a)
    /\ UNCHANGED <<exchanges, disputes, blacklist, capability, tasks>>
    /\ UNCHANGED <<user_messages, control>>
    /\ log' = IF answer' = "ok" THEN <<"set trade as violation">> ELSE <<>>

\* on_violation when send_message of line 1901 raises inside db.atomic(): the
\* transaction of lines 1894-1907 is rolled back
on_violation_failed(a, t) ==
    /\ t \in TradeIds
    /\ user_has_field(a, "admin_trade")
    /\ answer' = "error"
    /\ useroper(a)
    /\ UNCHANGED <<ledger, capability, tasks>>
    /\ UNCHANGED <<user_messages, control>>
    /\ log' = <<>>

\* --------------------------------------------------------------- proposals
\* a purchase whose debit alone reaches the table
coin_debit_saved(us, buyer, owner, price) ==
    [us EXCEPT ![buyer].coins = @ - price]

\* on_exchange_coin, lines 1023-1025: user.coins -= t.coins and
\* t.user.coins += t.coins change two instances that are never saved
coin_transfer_saved(us, buyer, owner, price) == us

\* on_exchange_submitted up to its first await (to_menu, a notification to
\* the owner) or, for a listing under revision, to its end
exchange_submitted(u, t, c, us) ==
    IF check_trade(trades[t], u) # "none"
    THEN /\ answer' = "refused"
         /\ UNCHANGED <<user_messages, control>>
         /\ log' = <<>>
         /\ UNCHANGED <<exchanges, tasks>>
    ELSE /\ Len(exchanges) < MaxExchanges
         /\ UNCHANGED <<user_messages, control>>
         /\ log' = <<"join exchange on trade">>
         /\ LET e == [user |-> u, trade |-> t, coins |-> c, status |-> E_LAUNCHED]
            IN /\ exchanges' = Append(exchanges, e)
               /\ IF trades[t].revision
                  THEN /\ tasks' = tasks
                       /\ answer' = "ok"
                  ELSE /\ Len(tasks) < MaxTasks
                       /\ tasks' = Append(tasks,
                              Task("exchange_submitted", t, trades[t],
                                   Len(exchanges) + 1, e, 0, NoRow,
                                   u, us[u], trades[t].user, us[trades[t].user]))
                       /\ answer' = answer

on_exchange_submitted(u, t) ==
    /\ t \in TradeIds
    /\ u \in Buyers
    /\ user_has_field(u, "exchange")
    /\ exchange_submitted(u, t, 0, users)
    /\ useroper(u)
    /\ UNCHANGED <<users, trades, disputes, blacklist, capability>>

\* a purchase that tests neither the price, the revision nor the balance
on_exchange_coin_untested(u, t) ==
    /\ t \in TradeIds
    /\ u \in Buyers
    /\ user_has_field(u, "exchange")
    /\ users' = coin_transfer_saved(users, u, trades[t].user, trades[t].coins)
    /\ exchange_submitted(u, t, trades[t].coins, users')
    /\ useroper(u)
    /\ UNCHANGED <<trades, disputes, blacklist, capability>>

on_exchange_coin(u, t) ==
    /\ t \in TradeIds
    /\ u \in Buyers
    /\ user_has_field(u, "exchange")
    /\ IF trades[t].coins = 0 \/ trades[t].revision
       THEN answer' = "refused" /\ log' = <<>> /\ UNCHANGED <<user_messages, control>> /\ UNCHANGED <<users, exchanges, tasks>>
       ELSE IF check_trade(trades[t], u) # "none"
       THEN answer' = "refused" /\ log' = <<>> /\ UNCHANGED <<user_messages, control>> /\ UNCHANGED <<users, exchanges, tasks>>
       ELSE IF users[u].coins < trades[t].coins
       THEN answer' = "refused" /\ log' = <<>> /\ UNCHANGED <<user_messages, control>> /\ UNCHANGED <<users, exchanges, tasks>>
       ELSE /\ users' = coin_transfer_saved(users, u, trades[t].user, trades[t].coins)
            /\ exchange_submitted(u, t, trades[t].coins, users')
    /\ useroper(u)
    /\ UNCHANGED <<trades, disputes, blacklist, capability>>

\* on_exchange_submitted after the await, lines 1131-1144
exchange_submitted_finish(i) ==
    /\ i \in DOMAIN tasks
    /\ tasks[i].kind = "exchange_submitted"
    /\ LET k == tasks[i]
           buyer == [k.aobj EXCEPT !.sanity =
                        sanity_reward(k.aobj.sanity, k.tobj.coins, BuyerDivisor, BuyerFloor)]
           owner == [k.bobj EXCEPT !.sanity =
                        sanity_reward(k.bobj.sanity, k.tobj.coins, SellerDivisor, SellerFloor)]
       IN /\ exchanges' = [exchanges EXCEPT ![k.e] = [k.eobj EXCEPT !.status = E_ACCEPTED]]
          /\ trades' = [trades EXCEPT ![k.t] = [k.tobj EXCEPT !.status = SOLD]]
          /\ users' = [[users EXCEPT ![k.a] = buyer] EXCEPT ![k.b] = owner]
    /\ tasks' = RemoveAt(tasks, i)
    /\ answer' = "ok"
    /\ UNCHANGED <<conversation, disputes, blacklist, capability>>
    /\ UNCHANGED <<user_messages, control>>
    /\ log' = <<"join exchange on trade", "buy trade">>

\* the notification of line 1123 raises: the wrapper reports the error and the
\* Exchange created before it stays as it is
exchange_submitted_failed(i) ==
    /\ i \in DOMAIN tasks
    /\ tasks[i].kind = "exchange_submitted"
    /\ tasks' = RemoveAt(tasks, i)
    /\ answer' = "error"
    /\ UNCHANGED <<conversation, ledger, capability>>
    /\ UNCHANGED <<user_messages, control>>
    /\ log' = <<"join exchange on trade">>

\* an acceptance that does not look at the two statuses first
on_trade_accept_unchecked(u, t, e) ==
    /\ t \in TradeIds /\ e \in ExchangeIds
    /\ exchanges[e].trade = t
    /\ u = trades[t].user
    /\ exchanges' = [exchanges EXCEPT ![e].status = E_ACCEPTED]
    /\ trades' = [trades EXCEPT ![t].status = SOLD]
    /\ users' = [users EXCEPT
          ![u].sanity = sanity_reward(@, trades[t].coins, SellerDivisor, SellerFloor),
          ![exchanges[e].user].sanity =
              sanity_reward(@, trades[t].coins, BuyerDivisor, BuyerFloor)]
    /\ answer' = "ok"
    /\ useroper(u)
    /\ UNCHANGED <<disputes, blacklist, capability, tasks>>
    /\ UNCHANGED <<user_messages, control>>
    /\ log' = IF answer' = "ok" THEN <<"accept exchange">> ELSE <<>>

on_trade_accept(u, t, e) ==
    /\ t \in TradeIds /\ e \in ExchangeIds
    /\ exchanges[e].trade = t
    /\ u = trades[t].user
    /\ IF trades[t].status # LAUNCHED \/ exchanges[e].status # E_LAUNCHED
       THEN answer' = "unavailable" /\ UNCHANGED <<users, trades, exchanges>>
       ELSE LET b == exchanges[e].user
                o == trades[t].user
            IN /\ exchanges' = [exchanges EXCEPT ![e].status = E_ACCEPTED]
               /\ trades' = [trades EXCEPT ![t].status = SOLD]
               /\ users' = [users EXCEPT
                     ![o].sanity = sanity_reward(@, trades[t].coins, SellerDivisor, SellerFloor),
                     ![b].sanity = sanity_reward(@, trades[t].coins, BuyerDivisor, BuyerFloor)]
               /\ answer' = "ok"
    /\ useroper(u)
    /\ UNCHANGED <<disputes, blacklist, capability, tasks>>
    /\ UNCHANGED <<user_messages, control>>
    /\ log' = IF answer' = "ok" THEN <<"accept exchange">> ELSE <<>>

on_trade_decline(u, t, e) ==
    /\ t \in TradeIds /\ e \in ExchangeIds
    /\ exchanges[e].trade = t
    /\ u = trades[t].user
    /\ IF trades[t].status # LAUNCHED \/ exchanges[e].status # E_LAUNCHED
       THEN answer' = "unavailable" /\ UNCHANGED exchanges
       ELSE /\ exchanges' = [exchanges EXCEPT ![e].status = E_DECLINED]
            /\ answer' = "ok"
    /\ useroper(u)
    /\ UNCHANGED <<users, trades, disputes, blacklist, capability, tasks>>
    /\ UNCHANGED <<user_messages, control>>
    /\ log' = IF answer' = "ok" THEN <<"decline exchange">> ELSE <<>>

\* on_trade_decline when send_message of line 2134 raises inside db.atomic():
\* the transaction of lines 2128-2135 is rolled back
on_trade_decline_failed(u, t, e) ==
    /\ t \in TradeIds /\ e \in ExchangeIds
    /\ exchanges[e].trade = t
    /\ u = trades[t].user
    /\ trades[t].status = LAUNCHED /\ exchanges[e].status = E_LAUNCHED
    /\ answer' = "error"
    /\ useroper(u)
    /\ UNCHANGED <<ledger, capability, tasks>>
    /\ UNCHANGED <<user_messages, control>>
    /\ log' = <<>>

\* ---------------------------------------------------------------- disputes
\* on_report: a community user reports a listing, or takes the report back
on_report(u, t) ==
    /\ t \in TradeIds
    /\ u \in Buyers
    /\ user_has_field(u, "community")
    /\ LET o == trades[t].user
           mine == {d \in DisputeIds : /\ disputes[d].live
                                       /\ disputes[d].user = u
                                       /\ disputes[d].trade = t
                                       /\ disputes[d].type = D_VIOLATION}
       IN IF user_has_field(o, "admin_trade")
          THEN answer' = "refused" /\ UNCHANGED <<users, disputes>>
          ELSE IF users[u].sanity < Max(users[o].sanity - ReportInfluence, ReportMinSanity)
          THEN answer' = "refused" /\ UNCHANGED <<users, disputes>>
          ELSE IF mine = {}
          THEN /\ Len(disputes) < MaxDisputes
               /\ disputes' = Append(disputes,
                      [trade |-> t, user |-> u, type |-> D_VIOLATION,
                       influence |-> ReportInfluence, live |-> TRUE,
                       rulings |-> 0])
               /\ users' = [users EXCEPT ![o].sanity = Max(@ - ReportInfluence, 0)]
               /\ answer' = "ok"
          ELSE \E d \in mine :
               /\ users' = [users EXCEPT ![o].sanity =
                                Min(@ + disputes[d].influence, MaxSanity)]
               /\ disputes' = [disputes EXCEPT ![d] = Deleted(@.rulings)]
               /\ answer' = "ok"
    /\ useroper(u)
    /\ UNCHANGED <<trades, exchanges, blacklist, capability, tasks>>
    /\ UNCHANGED <<user_messages, control>>
    /\ log' = IF answer' # "ok" THEN <<>>
               ELSE IF Len(disputes') = Len(disputes) THEN <<"cancel report on a trade">>
               ELSE <<"report on a trade">>

\* the __trade_finished menu with to_trade is in the hands of u: the owner gets
\* it before the acceptance is committed (line 1123) or with it (line 2116),
\* the proposer after it (lines 1142, 2108)
has_finished_menu(u, t, e, to_trade) ==
    /\ exchanges[e].trade = t
    /\ IF to_trade
       THEN /\ u = trades[t].user
            /\ \/ exchanges[e].status = E_ACCEPTED
               \/ \E i \in DOMAIN tasks :
                     tasks[i].kind = "exchange_submitted" /\ tasks[i].e = e
       ELSE /\ u = exchanges[e].user
            /\ exchanges[e].status = E_ACCEPTED

\* on_trade_finish: the message of the __trade_finished menu shows u the
\* secret of the other side, e.exchange to the owner (line 2173, not for a
\* purchase with coins) and t.good to the proposer (line 2185)
secret_delivered(u, t, e) ==
    \/ has_finished_menu(u, t, e, TRUE) /\ exchanges[e].coins = 0
    \/ has_finished_menu(u, t, e, FALSE)

dispute_type(to_trade, problem) ==
    IF to_trade
    THEN IF problem = "no_good" THEN EXCHANGE_NO_GOOD ELSE EXCHANGE_NOT_AS_DESCRIPTION
    ELSE IF problem = "no_good" THEN TRADE_NO_GOOD ELSE TRADE_NOT_AS_DESCRIPTION

\* on_trade_report: the problem chosen in the __trade_finished menu
on_trade_report(u, t, e, to_trade, problem) ==
    /\ t \in TradeIds /\ e \in ExchangeIds
    /\ has_finished_menu(u, t, e, to_trade)
    /\ conversation' = set_conversation(cleared(u), u, "WAITING_REPORT", <<>>,
           [trade_id |-> t, exchange_id |-> e, to_trade |-> to_trade,
            report_after_trade_problem_id |-> problem])
    /\ answer' = "ok"
    /\ UNCHANGED <<ledger, capability, tasks>>
    /\ UNCHANGED <<user_messages, control>>
    /\ log' = <<>>

\* text_handler in the stage WAITING_REPORT: the evidence of the report
text_handler_report(u) ==
    /\ conversation[u].status = "WAITING_REPORT"
    /\ Len(disputes) < MaxDisputes
    /\ LET conv == conversation[u]
           t == conv.params.trade_id
           e == conv.params.exchange_id
           to_trade == conv.params.to_trade
           type == dispute_type(to_trade, conv.params.report_after_trade_problem_id)
           target == IF to_trade THEN exchanges[e].user ELSE trades[t].user
       IN /\ disputes' = Append(disputes,
                 [trade |-> t, user |-> u, type |-> type,
                  influence |-> dispute_influence(trades[t].coins), live |-> TRUE,
                  rulings |-> 0])
          /\ users' = [users EXCEPT ![target].sanity =
                           sanity_after_report(@, trades[t].coins)]
    /\ answer' = "ok"
    /\ UNCHANGED <<conversation, trades, exchanges, blacklist, capability, tasks>>
    /\ UNCHANGED <<user_messages, control>>
    /\ log' = <<"raise dispute after trade">>

accepted_exchanges(t) ==
    {e \in ExchangeIds : exchanges[e].trade = t /\ exchanges[e].status = E_ACCEPTED}

\* the sides of a report taken the other way round
trade_side(type) == type \in {TRADE_NO_GOOD, TRADE_NOT_AS_DESCRIPTION}

exchange_side(type) == type \in {EXCHANGE_NO_GOOD, EXCHANGE_NOT_AS_DESCRIPTION}

\* on_report_accept up to its first await (send_message)
on_report_accept(a, t, d) ==
    /\ t \in TradeIds
    /\ d \in DisputeIds
    /\ disputes[d].live => disputes[d].trade = t
    /\ IF ~dispute_exists(d)
       THEN \* Dispute.get_by_id raises DoesNotExist
            answer' = "error" /\ tasks' = tasks
       ELSE IF disputes[d].type = D_VIOLATION
       THEN \* reporter.save() at line 2031: reporter is not bound on this branch
            answer' = "error" /\ tasks' = tasks
       ELSE IF accepted_exchanges(t) = {}
       THEN answer' = "error" /\ tasks' = tasks
       ELSE \E e \in accepted_exchanges(t) :
            LET side == exchange_side(disputes[d].type)
                reporter == IF side THEN trades[t].user ELSE exchanges[e].user
                reportee == IF side THEN exchanges[e].user ELSE trades[t].user
                r1 == [users[reporter] EXCEPT
                          !.coins = TruncHalf(2 * @ + trades[t].coins)]
                r2 == [users[reportee] EXCEPT
                          !.sanity = Max(@ - disputes[d].influence - AcceptExtraPenalty, 0),
                          !.coins = TruncHalf(2 * @ - trades[t].coins)]
            IN /\ Len(tasks) < MaxTasks
               /\ disputes[d].rulings < MaxRulings
               /\ tasks' = Append(tasks,
                      Task("report_accept", t, [trades[t] EXCEPT !.status = DISPUTED],
                           e, exchanges[e], d, disputes[d], reporter, r1, reportee, r2))
               /\ answer' = answer
    /\ useroper(a)
    /\ UNCHANGED <<ledger, capability>>
    /\ UNCHANGED <<user_messages, control>>
    /\ log' = <<>>

\* on_report_accept after the awaits, lines 2031-2038
report_accept_finish(i) ==
    /\ i \in DOMAIN tasks
    /\ tasks[i].kind = "report_accept"
    /\ LET k == tasks[i]
       IN /\ users' = [[users EXCEPT ![k.a] = k.aobj] EXCEPT ![k.b] = k.bobj]
          /\ trades' = [trades EXCEPT ![k.t] = k.tobj]
          /\ disputes' = [disputes EXCEPT ![k.d].rulings = @ + 1]
    /\ tasks' = RemoveAt(tasks, i)
    /\ answer' = "ok"
    /\ UNCHANGED <<conversation, exchanges, blacklist, capability>>
    /\ UNCHANGED <<user_messages, control>>
    /\ log' = <<"accept report">>

\* on_report_decline up to its await (send_message)
on_report_decline(a, t, d) ==
    /\ t \in TradeIds
    /\ d \in DisputeIds
    /\ disputes[d].live => disputes[d].trade = t
    /\ IF ~dispute_exists(d)
       THEN \* Dispute.get_by_id raises DoesNotExist
            answer' = "error" /\ UNCHANGED <<users, tasks>>
       ELSE IF disputes[d].type = D_VIOLATION
       THEN LET r == disputes[d].user
                us == [users EXCEPT ![r].sanity =
                          Max(@ - ((disputes[d].influence + 1) \div 2), 0)]
                o == trades[t].user
            IN /\ Len(tasks) < MaxTasks
               /\ users' = us
               /\ tasks' = Append(tasks,
                      Task("report_decline", t, trades[t], 0, NoRow, d, disputes[d],
                           r, us[r], o, us[o]))
               /\ answer' = answer
       ELSE IF accepted_exchanges(t) = {}
       THEN answer' = "error" /\ UNCHANGED <<users, tasks>>
       ELSE \E e \in accepted_exchanges(t) :
            LET reportee == IF exchange_side(disputes[d].type)
                            THEN exchanges[e].user ELSE trades[t].user
            IN /\ Len(tasks) < MaxTasks
               /\ tasks' = Append(tasks,
                      Task("report_decline", t, trades[t], e, exchanges[e], d, disputes[d],
                           disputes[d].user, users[disputes[d].user],
                           reportee, users[reportee]))
               /\ users' = users
               /\ answer' = answer
    /\ useroper(a)
    /\ UNCHANGED <<trades, exchanges, disputes, blacklist, capability>>
    /\ UNCHANGED <<user_messages, control>>
    /\ log' = <<>>

\* on_report_decline after the await, lines 2067-2074
report_decline_finish(i) ==
    /\ i \in DOMAIN tasks
    /\ tasks[i].kind = "report_decline"
    /\ LET k == tasks[i]
       IN /\ users' = [users EXCEPT ![k.b] =
                          [k.bobj EXCEPT !.sanity =
                              Min(@ + k.dobj.influence, MaxSanity)]]
          /\ disputes' = [disputes EXCEPT ![k.d] = Deleted(@.rulings + 1)]
    /\ tasks' = RemoveAt(tasks, i)
    /\ answer' = "ok"
    /\ UNCHANGED <<conversation, trades, exchanges, blacklist, capability>>
    /\ UNCHANGED <<user_messages, control>>
    /\ log' = <<"accept report">>

\* ------------------------------------------------------------------ wizards
\* a message: a photo, or a text with its length and, where int() reads it,
\* its value
Word(n) == [photo |-> FALSE, len |-> n, numeric |-> FALSE, int |-> 0]
Number(v) == [photo |-> FALSE, len |-> 1, numeric |-> TRUE, int |-> v]
Photo == [photo |-> TRUE, len |-> 0, numeric |-> FALSE, int |-> 0]
Messages == {Word(NameLimit), Word(NameLimit + 1), Word(DescLimit),
             Word(DescLimit + 1), Number(MaxPrice), Photo}

\* {k: v for k, v in parameters.items() if k.startswith("trade_")}
TradeKeys == {"trade_id", "trade_name", "trade_desc", "trade_photo", "trade_good",
              "trade_exchange_for", "trade_coins", "trade_modify"}
trade_params(parameters) ==
    IF DOMAIN parameters \cap TradeKeys = {} THEN <<>>
    ELSE [k \in DOMAIN parameters \cap TradeKeys |-> parameters[k]]

\* numbers in base SanityScale, lowest digit first: n times m plus carry
RECURSIVE times(_, _, _)
times(n, m, carry) ==
    IF n = <<>>
    THEN IF carry = 0 THEN <<>>
         ELSE <<carry % SanityScale>> \o times(<<>>, m, carry \div SanityScale)
    ELSE LET v == Head(n) * m + carry
         IN <<v % SanityScale>> \o times(Tail(n), m, v \div SanityScale)

RECURSIVE power(_, _, _)
power(n, m, k) == IF k = 0 THEN n ELSE power(times(n, m, 0), m, k - 1)

RECURSIVE value(_)
value(n) == IF n = <<>> THEN 0 ELSE Head(n) + SanityScale * value(Tail(n))

\* the whole part of (history_sold + 1) * 1000 * pow(sanity / 100, 10)
price_cap_of(sanity, sold) ==
    LET s == IF sanity >= 0 THEN sanity ELSE 0 - sanity
        n == power(times(<<1>>, (sold + 1) * PriceCapBase, 0), s, CapExponent)
    IN IF Len(n) <= CapExponent THEN 0 ELSE value(SubSeq(n, CapExponent + 1, Len(n)))

\* the same number, worked out once for every trust score and count of sales
\* that the bounds allow
price_caps ==
    [sanity \in (0 - SanityDrop)..MaxSanity |->
        [sold \in 0..MaxTrades |-> price_cap_of(sanity, sold)]]
price_cap(sanity, sold) == price_caps[sanity][sold]

history_sold(u) ==
    Cardinality({t \in TradeIds : trades[t].status = SOLD /\ trades[t].user = u})

\* a handler that changes no table and no Conversation
replies(reply) ==
    /\ answer' = reply
    /\ UNCHANGED <<ledger, capability, tasks, conversation>>
    /\ UNCHANGED <<user_messages, control>>
    /\ log' = <<>>

\* a failed validation: set_conversation(user, conv.context, the same status)
asks_again(u, reply) ==
    /\ conversation' = set_conversation(conversation, u, conversation[u].status, <<>>, <<>>)
    /\ answer' = reply
    /\ UNCHANGED <<ledger, capability, tasks>>
    /\ UNCHANGED <<user_messages, control>>
    /\ log' = <<>>

\* to_menu to a handler that keeps the trade_ parameters as the new Conversation
next_stage(u, status, parameters) ==
    /\ conversation' = set_conversation(cleared(u), u, status, trade_params(parameters), <<>>)
    /\ answer' = "ok"
    /\ UNCHANGED <<ledger, capability, tasks>>
    /\ UNCHANGED <<user_messages, control>>
    /\ log' = <<>>

\* set_conversation(user, conv.context, status, key=value)
same_wizard(u, status, kw) ==
    /\ conversation' = set_conversation(conversation, u, status, <<>>, kw)
    /\ answer' = "ok"
    /\ UNCHANGED <<ledger, capability, tasks>>
    /\ UNCHANGED <<user_messages, control>>
    /\ log' = <<>>

on_new_trade(u) ==
    /\ Len(trades) < MaxTrades
    /\ conversation' = set_conversation(cleared(u), u, "WAITING_TRADE_NAME", <<>>, <<>>)
    /\ answer' = "ok"
    /\ UNCHANGED <<ledger, capability, tasks>>
    /\ UNCHANGED <<user_messages, control>>
    /\ log' = <<>>

\* on_modify and the menu new_trade it leads to: the wizard of on_new_trade with
\* trade_id and trade_modify among its parameters
on_modify(u, t) ==
    /\ t \in TradeIds
    /\ u = trades[t].user
    /\ IF trades[t].status >= SOLD \/ trades[t].deleted
       THEN useroper(u) /\ answer' = "refused"
       ELSE IF \E d \in DisputeIds : disputes[d].live /\ disputes[d].trade = t
       THEN useroper(u) /\ answer' = "refused"
       ELSE /\ conversation' = set_conversation(cleared(u), u, "WAITING_TRADE_NAME",
                                    [trade_id |-> t, trade_modify |-> TRUE], <<>>)
            /\ answer' = "ok"
    /\ UNCHANGED <<ledger, capability, tasks>>
    /\ UNCHANGED <<user_messages, control>>
    /\ log' = <<>>

\* on_trade_revision with trade_modify among its parameters, lines 1241-1255
on_trade_modified(u, t, c, rev, photo) ==
    /\ t \in TradeIds
    /\ user_has_field(u, "add_trade")
    /\ LET m == [trades[t] EXCEPT !.coins = c, !.revision = rev, !.photo = photo,
                                  !.available = available_from(<<>>),
                                  !.url = FALSE]
       IN trades' = [trades EXCEPT ![t] = [m EXCEPT !.status = launch_status(u, m)]]
    /\ answer' = "ok"
    /\ useroper(u)
    /\ UNCHANGED <<users, exchanges, disputes, blacklist, capability, tasks>>
    /\ UNCHANGED <<user_messages, control>>
    /\ log' = <<"modify a trade", "launch a trade">>

on_exchange(u, t) ==
    /\ t \in TradeIds
    /\ user_has_field(u, "exchange")
    /\ IF check_trade(trades[t], u) # "none"
       THEN useroper(u) /\ answer' = "refused"
       ELSE /\ conversation' = set_conversation(cleared(u), u, "WAITING_EXCHANGE",
                                                [trade_id |-> t], <<>>)
            /\ answer' = "ok"
    /\ UNCHANGED <<ledger, capability, tasks>>
    /\ UNCHANGED <<user_messages, control>>
    /\ log' = <<>>

\* the button of the menu __trade_add_photo, with the parameters of that menu
on_trade_no_photo(u) ==
    /\ conversation[u].status = "WAITING_TRADE_PHOTO"
    /\ next_stage(u, "WAITING_TRADE_GOOD",
                  update(conversation[u].params, [trade_photo |-> NoRow]))

\* the button of the menu __trade_set_start_time and the answer rev to the
\* menu __trade_set_revision it leads to, with the parameters of that menu
on_trade_no_start_time(u, rev) ==
    /\ conversation[u].status = "WAITING_TRADE_START_TIME"
    /\ LET params == conversation[u].params
       IN IF "trade_modify" \in DOMAIN params
          THEN on_trade_modified(u, params.trade_id, params.trade_coins, rev,
                                 params.trade_photo # NoRow)
          ELSE on_trade_revision(u, params.trade_coins, rev,
                                 params.trade_photo # NoRow)

text_waiting_exchange(u, m) ==
    LET t == conversation[u].params.trade_id
    IN IF trades[t].revision
       THEN /\ conversation' = set_conversation(cleared(u), u, "WAITING_EXCHANGE_DESC",
                                                [trade_id |-> t, exchange |-> m], <<>>)
            /\ answer' = "ok"
            /\ UNCHANGED <<user_messages, control>>
            /\ log' = <<>>
            /\ UNCHANGED <<ledger, capability, tasks>>
       ELSE user_has_field(u, "exchange") /\ on_exchange_submitted(u, t)

text_waiting_exchange_desc(u, m) ==
    IF m.len > DescLimit THEN asks_again(u, "too long")
    ELSE /\ user_has_field(u, "exchange")
         /\ on_exchange_submitted(u, conversation[u].params.trade_id)

text_waiting_trade_name(u, m) ==
    IF m.len > NameLimit THEN asks_again(u, "too long")
    ELSE next_stage(u, "WAITING_TRADE_DESC",
                    update(conversation[u].params, [trade_name |-> m]))

text_waiting_trade_desc(u, m) ==
    IF m.len > DescLimit THEN asks_again(u, "too long")
    ELSE next_stage(u, "WAITING_TRADE_PHOTO",
                    update(conversation[u].params, [trade_desc |-> m]))

text_waiting_exchange_for(u, m) ==
    IF m.len > DescLimit THEN asks_again(u, "too long")
    ELSE same_wizard(u, "WAITING_COINS", [trade_exchange_for |-> m])

\* a price stage that lets a negative number through
text_waiting_coins_signed(u, m) ==
    IF ~m.numeric THEN replies("error")
    ELSE IF price_cap(users[u].sanity, history_sold(u)) < m.int
    THEN asks_again(u, "retry")
    ELSE next_stage(u, "WAITING_TRADE_START_TIME",
                    update(conversation[u].params, [trade_coins |-> m.int]))

text_waiting_coins(u, m) ==
    IF ~m.numeric
    THEN \* int() raises and line 643 reads coins, which is not bound
         replies("error")
    ELSE IF m.int < 0 \/ price_cap(users[u].sanity, history_sold(u)) < m.int
    THEN asks_again(u, "retry")
    ELSE next_stage(u, "WAITING_TRADE_START_TIME",
                    update(conversation[u].params, [trade_coins |-> m.int]))

\* ------------------------------------------------------ deletion and relay
\* the rows of Dispute joined to the Trade t, line 1473
disputes_of(t) == {d \in DisputeIds : dispute_exists(d) /\ disputes[d].trade = t}

on_delete(u, t) ==
    /\ t \in TradeIds
    /\ IF trades[t].deleted
       THEN answer' = "refused" /\ trades' = trades
       ELSE IF trades[t].status < DISPUTED
       THEN answer' = "refused" /\ trades' = trades
       ELSE IF disputes_of(t) # {}
       THEN answer' = "refused" /\ trades' = trades
       ELSE /\ trades' = [trades EXCEPT ![t].deleted = TRUE]
            /\ answer' = "ok"
    /\ useroper(u)
    /\ log' = IF answer' = "ok" THEN <<"delete a trade">> ELSE <<>>
    /\ UNCHANGED <<users, exchanges, disputes, blacklist, capability, tasks,
                   user_messages, control>>

\* User.chat is True from the creation of the row (model.py 80)
on_contact(u, t) ==
    /\ t \in TradeIds
    /\ user_has_field(u, "community")
    /\ IF <<trades[t].user, u>> \in blacklist
       THEN useroper(u) /\ answer' = "refused"
       ELSE /\ conversation' = set_conversation(cleared(u), u, "CHATING", <<>>,
                                                [trade_id |-> t])
            /\ answer' = "ok"
    /\ log' = <<>>
    /\ UNCHANGED <<ledger, capability, tasks, user_messages, control>>

\* client.send_message to the user to, and the MessageInfo kept under the id
\* of the message sent, lines 492-497 and 729-734
MessageInfo(to, from_user, trade) ==
    [to |-> to, from_user |-> from_user, trade |-> trade]
relayed(to, from_user, trade) ==
    /\ Len(user_messages) < MaxMessages
    /\ user_messages' = Append(user_messages, MessageInfo(to, from_user, trade))
    /\ UNCHANGED control
    /\ answer' = "sent"

\* text_handler at the stage CHATING, lines 727-737
text_chating(u) ==
    /\ LET params == conversation[u].params
           t == params.trade_id
       IN /\ t \in TradeIds
          /\ relayed(IF "reply_to_user" \in DOMAIN params
                     THEN params.reply_to_user ELSE trades[t].user, u, t)
    /\ log' = <<>>
    /\ UNCHANGED <<ledger, capability, tasks, conversation>>

\* text_handler for a text sent in reply to the relayed message i, lines
\* 487-504, by a user in no wizard: after "/ban" the handler goes on to the
\* stored Conversation, which relays the text when its stage is CHATING
text_handler_reply(u, i, ban) ==
    /\ i \in DOMAIN user_messages
    /\ user_messages[i].to = u
    /\ conversation[u].status \in {"None", "CHATING"}
    /\ LET minfo == user_messages[i]
       IN IF ban
          THEN /\ blacklist' = blacklist \cup {<<u, minfo.from_user>>}
               /\ conversation' = conversation
               /\ IF conversation[u].status = "None"
                  THEN answer' = "passed" /\ user_messages' = user_messages /\ UNCHANGED control
                  ELSE LET params == conversation[u].params
                       IN relayed(IF "reply_to_user" \in DOMAIN params
                                  THEN params.reply_to_user
                                  ELSE trades[params.trade_id].user,
                                  u, params.trade_id)
          ELSE /\ relayed(minfo.from_user, u, minfo.trade)
               /\ conversation' = set_conversation(conversation, u, "CHATING", <<>>,
                      [trade_id |-> minfo.trade, reply_to_user |-> minfo.from_user])
               /\ blacklist' = blacklist
    /\ log' = <<>>
    /\ UNCHANGED <<users, trades, exchanges, disputes, capability, tasks>>

text_handler(u, m) ==
    LET status == conversation[u].status
    IN IF status = "None" THEN replies("passed")
       ELSE IF status = "WAITING_REPORT" THEN text_handler_report(u)
       ELSE IF m.photo
       THEN IF status = "WAITING_TRADE_PHOTO"
            THEN same_wizard(u, "WAITING_TRADE_GOOD", [trade_photo |-> m])
            ELSE \* line 741 has no else: the handler returns, and the message
                 \* reaches no other handler of the group
                 replies("dropped")
       ELSE IF status = "WAITING_EXCHANGE" THEN text_waiting_exchange(u, m)
       ELSE IF status = "WAITING_EXCHANGE_DESC" THEN text_waiting_exchange_desc(u, m)
       ELSE IF status = "WAITING_TRADE_NAME" THEN text_waiting_trade_name(u, m)
       ELSE IF status = "WAITING_TRADE_DESC" THEN text_waiting_trade_desc(u, m)
       ELSE IF status = "WAITING_TRADE_GOOD"
       THEN same_wizard(u, "WAITING_EXCHANGE_FOR", [trade_good |-> m])
       ELSE IF status = "WAITING_EXCHANGE_FOR" THEN text_waiting_exchange_for(u, m)
       ELSE IF status = "WAITING_COINS" THEN text_waiting_coins(u, m)
       ELSE IF status = "WAITING_TRADE_START_TIME"
       THEN \* parser.parse() is called without the text and raises
            replies("error")
       ELSE IF status = "CHATING" THEN text_chating(u)
       ELSE replies("passed")

\* ------------------------------------------------------- identity resolution
\* fetch_user, line 289: system_users.count() < 2
system_limit == 2

\* fetch_user, lines 285-288: the users that are in the level system, given
\* the levels ls
system_users(ls) == {v \in Ids : "system" \in ls[v]}

\* a test that lets one user more in
up_to_limit(ls) == Cardinality(system_users(ls)) <= system_limit

\* fetch_user, line 289
below_limit(ls) == Cardinality(system_users(ls)) < system_limit

\* fetch_user, lines 272-284: get_or_create makes the row of a user met for
\* the first time, and the user joins the level user
user_created(u) == users[u] = NoRow
users_fetched(u) ==
    IF user_created(u)
    THEN [users EXCEPT ![u] = [coins |-> DefaultCoins, sanity |-> DefaultSanity]]
    ELSE users
levels_joined(u) ==
    IF user_created(u) THEN [levels EXCEPT ![u] = {"user"}] ELSE levels

\* fetch_user, lines 289-295: the level system is added with its Log row, in
\* one transaction, when fewer than system_limit users are in it: "promoted"
\* stands for that transaction. levels.add of a level the user is in breaks
\* the unique index of the through table
fetch_outcome(u) ==
    IF below_limit(levels_joined(u))
    THEN IF "system" \in levels_joined(u)[u] THEN "error" ELSE "promoted"
    ELSE IF user_created(u) THEN "created" ELSE "resolved"
levels_fetched(u) ==
    IF fetch_outcome(u) = "promoted"
    THEN [levels_joined(u) EXCEPT ![u] = @ \cup {"system"}]
    ELSE levels_joined(u)

\* the Log rows of fetch_user, lines 278 and 283 with the creation, line 293
\* with the promotion; the rows of a transaction that raises are rolled back
fetch_log(u) ==
    (IF user_created(u) THEN <<"create user", "add level to user">> ELSE <<>>)
    \o (IF fetch_outcome(u) = "promoted" THEN <<"add level to user">> ELSE <<>>)

\* fetch_user of the Telegram user u
fetch_user(u) ==
    /\ users' = users_fetched(u)
    /\ levels' = levels_fetched(u)
    /\ answer' = fetch_outcome(u)
    /\ UNCHANGED <<trades, exchanges, disputes, blacklist, fields,
                   restrictions, now, tasks, conversation>>
    /\ UNCHANGED <<user_messages, control>>
    /\ log' = fetch_log(u)

\* the wrapper of useroper has fetched the caller a, line 163, and fetching
\* a once more would change nothing
resolved(a) ==
    /\ users[a] # NoRow
    /\ ~below_limit(levels)

\* ------------------------------------------------- capability administration
\* a check that turns nobody down
never_denied(a, field) == FALSE

\* the wrapper of a handler declared with a field, lines 166-172
denied(a, field) == ~user_has_field(a, field)

\* the wrapper of a handler declared with field, for a call it turns down,
\* lines 162-169: the sender is fetched, fails the check on the row fetched
\* and is sent the error
useroper_denied(a, field) ==
    /\ fetch_outcome(a) # "error"
    /\ users' = users_fetched(a)
    /\ levels' = levels_fetched(a)
    /\ UNCHANGED <<fields, restrictions, now>>
    /\ denied(a, field)'
    /\ answer' = "denied"
    /\ UNCHANGED <<trades, exchanges, disputes, blacklist, tasks, conversation>>
    /\ UNCHANGED <<user_messages, control>>
    /\ log' = fetch_log(a)

on_user_level_add(a, u, l) ==
    /\ IF denied(a, "admin_user")
       THEN answer' = "denied" /\ UNCHANGED <<levels, conversation>>
       ELSE /\ useroper(a)
            /\ IF u = a
               THEN answer' = "refused" /\ UNCHANGED levels
               ELSE IF user_has_field(u, "all")
               THEN answer' = "refused" /\ UNCHANGED levels
               ELSE IF /\ ~user_has_field(u, "admin")
                       /\ "admin" \in fields[l]
                       /\ ~user_has_field(a, "admin_admin")
               THEN answer' = "refused" /\ UNCHANGED levels
               ELSE IF l \in levels[u]
               THEN answer' = "refused" /\ UNCHANGED levels
               ELSE /\ levels' = [levels EXCEPT ![u] = @ \cup {l}]
                    /\ answer' = "ok"
    /\ UNCHANGED <<ledger, fields, restrictions, now, tasks>>
    /\ UNCHANGED <<user_messages, control>>
    /\ log' = IF answer' = "ok" THEN <<"add level to user">> ELSE <<>>

on_user_level_delete(a, u, l) ==
    /\ IF denied(a, "admin_user")
       THEN answer' = "denied" /\ UNCHANGED <<levels, conversation>>
       ELSE /\ useroper(a)
            /\ IF u = a
               THEN answer' = "refused" /\ UNCHANGED levels
               ELSE IF user_has_field(u, "all")
               THEN answer' = "refused" /\ UNCHANGED levels
               ELSE IF user_has_field(u, "admin") /\ ~user_has_field(a, "admin_admin")
               THEN answer' = "refused" /\ UNCHANGED levels
               ELSE /\ levels' = [levels EXCEPT ![u] = @ \ {l}]
                    /\ answer' = "ok"
    /\ UNCHANGED <<ledger, fields, restrictions, now, tasks>>
    /\ UNCHANGED <<user_messages, control>>
    /\ log' = IF answer' = "ok" THEN <<"remove level from user">> ELSE <<>>

\* to=datetime.now() + timedelta(days=time), with the fields chosen in the menu
on_user_restriction(a, u, fs, time) ==
    /\ Len(restrictions) < MaxRestrictions
    /\ IF denied(a, "admin_user")
       THEN answer' = "denied" /\ UNCHANGED <<restrictions, conversation>>
       ELSE /\ useroper(a)
            /\ restrictions' = Append(restrictions,
                   [user |-> u, to |-> now + time, fields |-> fs])
            /\ answer' = "ok"
    /\ UNCHANGED <<ledger, levels, fields, now, tasks>>
    /\ UNCHANGED <<user_messages, control>>
    /\ log' = IF answer' = "ok" THEN <<"restrict user">> ELSE <<>>

on_user_restriction_delete(a, u) ==
    /\ IF denied(a, "admin_user")
       THEN answer' = "denied" /\ UNCHANGED <<restrictions, conversation>>
       ELSE /\ useroper(a)
            /\ IF active_restrictions(u) = <<>>
               THEN answer' = "refused" /\ UNCHANGED restrictions
               ELSE /\ restrictions' =
                          [i \in DOMAIN restrictions |->
                              IF restrictions[i].user = u /\ restrictions[i].to > now
                              THEN [restrictions[i] EXCEPT !.to = now]
                              ELSE restrictions[i]]
                    /\ answer' = "ok"
    /\ UNCHANGED <<ledger, levels, fields, now, tasks>>
    /\ UNCHANGED <<user_messages, control>>
    /\ log' = IF answer' = "ok"
              THEN [i \in DOMAIN active_restrictions(u) |-> "remove restriction from user"]
              ELSE <<>>

on_level_field_add(a, l, f) ==
    /\ IF denied(a, "admin_admin")
       THEN answer' = "denied" /\ UNCHANGED <<fields, conversation>>
       ELSE /\ useroper(a)
            /\ IF f = "all" /\ ~user_has_field(a, "all")
               THEN answer' = "refused" /\ UNCHANGED fields
               ELSE /\ fields' = [fields EXCEPT ![l] = @ \cup {f}]
                    /\ answer' = "ok"
    /\ UNCHANGED <<ledger, levels, restrictions, now, tasks>>
    /\ UNCHANGED <<user_messages, control>>
    /\ log' = IF answer' = "ok" THEN <<"add field to level">> ELSE <<>>

on_level_field_delete(a, l, f) ==
    /\ f \in fields[l]
    /\ IF denied(a, "admin_admin")
       THEN answer' = "denied" /\ UNCHANGED <<fields, conversation>>
       ELSE /\ useroper(a)
            /\ IF f = "all"
               THEN answer' = "refused" /\ UNCHANGED fields
               ELSE /\ fields' = [fields EXCEPT ![l] = @ \ {f}]
                    /\ answer' = "ok"
    /\ UNCHANGED <<ledger, levels, restrictions, now, tasks>>
    /\ UNCHANGED <<user_messages, control>>
    /\ log' = IF answer' = "ok" THEN <<"delete field from level">> ELSE <<>>

\* content_user_level_add with no look at the fields of a level
every_other_level(u) == {l \in LevelNames : l \notin levels[u]}

\* content_user_level_add, lines 1651-1655: the levels offered for the user u,
\* those without the field "all" that u is not in
user_level_add_items(u) ==
    {l \in LevelNames : "all" \notin fields[l] /\ l \notin levels[u]}

\* a menu message in the hands of a, with the items it lists for the user u
Menu(kind, a, u, items) ==
    Task(kind, 0, NoRow, 0, NoRow, 0, items, a, NoRow, u, NoRow)

\* content_user_level_add: the menu __user_level_add of the user u
content_user_level_add(a, u) ==
    /\ IF denied(a, "admin_user")
       THEN answer' = "denied" /\ UNCHANGED <<tasks, conversation>>
       ELSE /\ useroper(a)
            /\ IF user_level_add_items(u) = {}
               THEN answer' = "refused" /\ tasks' = tasks
               ELSE /\ Len(tasks) < MaxTasks
                    /\ tasks' = Append(tasks, Menu("__user_level_add", a, u,
                                                   user_level_add_items(u)))
                    /\ answer' = "ok"
    /\ UNCHANGED <<ledger, capability>>
    /\ UNCHANGED <<user_messages, control>>
    /\ log' = <<>>

\* a button of the menu __user_level_add: on_user_level_add with the level of
\* the item, as it was listed
user_level_add_pressed(i, l) ==
    /\ i \in DOMAIN tasks
    /\ tasks[i].kind = "__user_level_add"
    /\ l \in tasks[i].dobj
    /\ on_user_level_add(tasks[i].a, tasks[i].b, l)

\* the menu message is deleted or shows another menu
menu_closed(i) ==
    /\ i \in DOMAIN tasks
    /\ tasks[i].kind = "__user_level_add"
    /\ tasks' = RemoveAt(tasks, i)
    /\ UNCHANGED <<ledger, capability, conversation, answer>>
    /\ UNCHANGED <<log, user_messages, control>>

\* the target of a restriction or of a ban is refused: the caller, a holder
\* of 'all', a holder of 'admin' (lines 1699-1707 and 1729-1737)
target_refused(a, u) ==
    \/ u = a
    \/ user_has_field(u, "all")
    \/ user_has_field(u, "admin")

\* content_restriction_fields: the fields that belong to a level become the
\* items of the menu of the user u
content_restriction_fields(a, u) ==
    /\ IF denied(a, "admin_user")
       THEN answer' = "denied" /\ UNCHANGED <<tasks, conversation>>
       ELSE /\ useroper(a)
            /\ IF target_refused(a, u)
               THEN answer' = "refused" /\ tasks' = tasks
               ELSE /\ Len(tasks) < MaxTasks
                    /\ tasks' = Append(tasks, Menu("restriction_fields", a, u,
                                       UNION {fields[l] : l \in LevelNames}))
                    /\ answer' = "ok"
    /\ log' = <<>>
    /\ UNCHANGED <<ledger, capability, user_messages, control>>

\* the menu __user_restriction under the fields chosen: on_user_restriction
\* with the user of the menu
user_restriction_pressed(i, fs, time) ==
    /\ i \in DOMAIN tasks
    /\ tasks[i].kind = "restriction_fields"
    /\ fs \subseteq tasks[i].dobj
    /\ on_user_restriction(tasks[i].a, tasks[i].b, fs, time)

\* on_user_delete: the question whether to ban the user u
on_user_delete(a, u) ==
    /\ IF denied(a, "admin_user")
       THEN answer' = "denied" /\ UNCHANGED <<tasks, conversation>>
       ELSE /\ useroper(a)
            /\ IF target_refused(a, u)
               THEN answer' = "refused" /\ tasks' = tasks
               ELSE /\ Len(tasks) < MaxTasks
                    /\ tasks' = Append(tasks, Menu("user_delete", a, u, {}))
                    /\ answer' = "ok"
    /\ log' = <<>>
    /\ UNCHANGED <<ledger, capability, user_messages, control>>

\* datetime(9999, 12, 31), later than every day of the model
forever == MaxNow + MaxDays + 1

\* on_user_delete_confirm, the button under the question
on_user_delete_confirm(i) ==
    /\ i \in DOMAIN tasks
    /\ tasks[i].kind = "user_delete"
    /\ Len(restrictions) < MaxRestrictions
    /\ IF denied(tasks[i].a, "admin_user")
       THEN answer' = "denied" /\ UNCHANGED <<restrictions, conversation>>
       ELSE /\ useroper(tasks[i].a)
            /\ restrictions' = Append(restrictions,
                   [user |-> tasks[i].b, to |-> forever, fields |-> {"all"}])
            /\ answer' = "ok"
    /\ log' = IF answer' = "ok" THEN <<"ban user">> ELSE <<>>
    /\ UNCHANGED <<ledger, levels, fields, now, tasks, user_messages, control>>

\* content_report_admin: the reports of the Trade t become the items of the
\* menu report_admin, whose buttons lead to report_accept and report_decline
content_report_admin(a, t) ==
    /\ t \in TradeIds
    /\ IF denied(a, "admin_trade")
       THEN answer' = "denied" /\ UNCHANGED <<tasks, conversation>>
       ELSE /\ useroper(a)
            /\ IF trades[t].status >= DISPUTED \/ disputes_of(t) = {}
               THEN answer' = "refused" /\ tasks' = tasks
               ELSE /\ Len(tasks) < MaxTasks
                    /\ tasks' = Append(tasks,
                           Task("report_admin", t, NoRow, 0, NoRow, 0, disputes_of(t),
                                a, NoRow, a, NoRow))
                    /\ answer' = "ok"
    /\ log' = <<>>
    /\ UNCHANGED <<ledger, capability, user_messages, control>>

\* the buttons under an item of the menu report_admin, pressed by the user
\* the menu was sent to
report_accept_pressed(i, d) ==
    /\ i \in DOMAIN tasks
    /\ tasks[i].kind = "report_admin"
    /\ d \in tasks[i].dobj
    /\ on_report_accept(tasks[i].a, tasks[i].t, d)

report_decline_pressed(i, d) ==
    /\ i \in DOMAIN tasks
    /\ tasks[i].kind = "report_admin"
    /\ d \in tasks[i].dobj
    /\ on_report_decline(tasks[i].a, tasks[i].t, d)

\* datetime.now() moves on by a day
day_passes ==
    /\ now < MaxNow
    /\ now' = now + 1
    /\ UNCHANGED <<ledger, levels, fields, restrictions, tasks, conversation, answer>>
    /\ UNCHANGED <<log, user_messages, control>>

\* datetime.now() is the local time of the host without a time zone: it
\* repeats an hour at the end of summer time and steps back when the clock of
\* the host is corrected
clock_set_back ==
    /\ now > 0
    /\ now' = now - 1
    /\ UNCHANGED <<ledger, levels, fields, restrictions, tasks, conversation, answer>>
    /\ UNCHANGED <<log, user_messages, control>>

\* ------------------------------------------------- the control bot: watch
\* The users of the control bot that have a MessageSettings row; the day of
\* the model has DaySeconds seconds.
Recipients == 1..NRecipients
Times == {DaySeconds \div 2, DaySeconds \div 2 + 3}

\* the coroutine at asyncio.sleep(10), line 118, with left seconds to go
asleep(left) == [pc |-> "sleep", left |-> left, scan |-> <<>>, ms |-> NoRow]

\* the control bot of a deployment that runs the marketplace alone
control_idle ==
    /\ clock = 0
    /\ settings = <<>>
    /\ messages = <<>>
    /\ reload = FALSE
    /\ watch = asleep(ScanSleep)
    /\ sent = <<>>

\* a query of MessageSettings ordered by time; rows of the same time come in
\* the order of their ids
RECURSIVE by_time(_)
by_time(S) ==
    IF S = {} THEN <<>>
    ELSE LET u == CHOOSE x \in S : \A y \in S :
                      \/ settings[x].time < settings[y].time
                      \/ settings[x].time = settings[y].time /\ x <= y
         IN <<[user |-> u, time |-> settings[u].time,
               enabled |-> settings[u].enabled]>> \o by_time(S \ {u})

\* next_message_settings, lines 97-103: the times from now on, then the
\* earlier ones
next_message_settings ==
    by_time({u \in DOMAIN settings : settings[u].time >= clock})
        \o by_time({u \in DOMAIN settings : settings[u].time < clock})

\* lines 120-125: the seconds from now to ms.time, today or tomorrow
delta_sec(ms) == (ms.time - clock + DaySeconds) % DaySeconds

\* the head of the loop 'for ms in ...', lines 119-127, over the rows that
\* the scan has not yielded yet; at its end, 'while True' and line 118
for_ms(scan) ==
    IF scan = <<>> THEN asleep(ScanSleep)
    ELSE [pc |-> "wait", left |-> delta_sec(Head(scan)), scan |-> Tail(scan),
          ms |-> Head(scan)]

\* the ids of the unread messages of u, lines 140-146
unread(u) == {i \in DOMAIN messages : messages[i].user = u /\ ~messages[i].read}

\* the control bot leaves the marketplace alone
market == <<users, trades, exchanges, disputes, blacklist, levels, fields,
            restrictions, now, tasks, conversation, answer, log, user_messages>>

\* one second of asyncio.sleep, lines 118 and 133
second_passes ==
    /\ clock' = (clock + 1) % DaySeconds
    /\ watch' = [watch EXCEPT !.left = @ - 1]

\* asyncio.sleep(10) of line 118
watch_sleep ==
    /\ watch.pc = "sleep"
    /\ watch.left > 0
    /\ second_passes
    /\ UNCHANGED <<market, settings, messages, reload, sent>>

\* the scan starts, line 119
watch_scan ==
    /\ watch.pc = "sleep"
    /\ watch.left = 0
    /\ watch' = for_ms(next_message_settings)
    /\ UNCHANGED <<market, clock, settings, messages, reload, sent>>

\* the wait for ms.time, lines 128-133, when _reload is not set
watch_wait ==
    /\ watch.pc = "wait"
    /\ watch.left > 0
    /\ ~reload
    /\ second_passes
    /\ UNCHANGED <<market, settings, messages, reload, sent>>

\* lines 129-131 and 160: _reload is set, the wait and the scan are left and
\* 'while True' starts again with asyncio.sleep(10)
watch_reload ==
    /\ watch.pc = "wait"
    /\ watch.left > 0
    /\ reload
    /\ reload' = FALSE
    /\ watch' = asleep(ScanSleep)
    /\ UNCHANGED <<market, clock, settings, messages, sent>>

\* the else of the wait, lines 134-159: the unread messages of the user of
\* ms are marked read and listed in one menu
watch_deliver ==
    /\ watch.pc = "wait"
    /\ watch.left = 0
    /\ LET ms == watch.ms
           mids == unread(ms.user)
       IN IF ~ms.enabled \/ ~settings[ms.user].member \/ mids = {}
          THEN UNCHANGED <<messages, sent>>
          ELSE /\ messages' = [i \in DOMAIN messages |->
                                 IF i \in mids
                                 THEN [messages[i] EXCEPT !.read = TRUE]
                                 ELSE messages[i]]
               /\ sent' = Append(sent, [uid |-> ms.user, messages_id |-> mids])
    /\ watch' = for_ms(watch.scan)
    /\ UNCHANGED <<market, clock, settings, reload>>

\* to_menu of line 153 raises inside db.atomic(): the read marks are rolled
\* back and the exception ends the coroutine
watch_deliver_failed ==
    /\ watch.pc = "wait"
    /\ watch.left = 0
    /\ watch.ms.enabled
    /\ settings[watch.ms.user].member
    /\ unread(watch.ms.user) # {}
    /\ watch' = [pc |-> "ended", left |-> 0, scan |-> <<>>, ms |-> NoRow]
    /\ UNCHANGED <<market, clock, settings, messages, reload, sent>>

\* on_change_message_time, lines 652-660, and change_message_time, 647-650
on_change_message_time(u, mtime) ==
    /\ u \in DOMAIN settings
    /\ settings' = [settings EXCEPT ![u].time = mtime]
    /\ reload' = TRUE
    /\ UNCHANGED <<market, clock, messages, watch, sent>>


\* ----------------------------------------------------------- specification
Levels0 ==
    [u \in Ids |-> IF u = System THEN {"system"}
                   ELSE IF u = Admin THEN {"user", "system"}
                   ELSE {"user"}]
Fields0 == [l \in LevelNames |-> IF l = "system" THEN {"all"} ELSE UserFields]

Init ==
    /\ users = [u \in Ids |-> [coins |-> DefaultCoins, sanity |-> DefaultSanity]]
    /\ trades = <<>>
    /\ exchanges = <<>>
    /\ disputes = <<>>
    /\ blacklist = {}
    /\ levels = Levels0
    /\ fields = Fields0
    /\ restrictions = <<>>
    /\ now = 0
    /\ tasks = <<>>
    /\ conversation = [u \in Ids |-> NoConv]
    /\ answer = "none"
    /\ log = <<>>
    /\ user_messages = <<>>
    /\ control_idle

\* the marketplace: listings, proposals, purchases, acceptances and rulings
Next ==
    \/ \E u \in Sellers, d \in Drafts :
          on_trade_revision(u, d.coins, d.revision, d.photo)
    \/ \E u \in Sellers, t \in TradeIds : on_launch(u, t)
    \/ \E t \in TradeIds : on_checked(Admin, t)
    \/ \E t \in TradeIds : on_violation(Admin, t)
    \/ \E u \in Buyers, t \in TradeIds : on_exchange_submitted(u, t)
    \/ \E u \in Buyers, t \in TradeIds : on_exchange_coin(u, t)
    \/ \E i \in DOMAIN tasks : exchange_submitted_finish(i)
    \/ \E i \in DOMAIN tasks : exchange_submitted_failed(i)
    \/ \E u \in Sellers, t \in TradeIds, e \in ExchangeIds : on_trade_accept(u, t, e)
    \/ \E u \in Sellers, t \in TradeIds, e \in ExchangeIds : on_trade_decline(u, t, e)

Spec == Init /\ [][Next]_vars

\* The same marketplace when earlier trades, whose rows are closed and outside
\* the bounded tables, have left coins with the buyers (line 2022 is the only
\* statement that stores a higher balance).
Funds == {DefaultCoins, MaxPrice}
InitFunded ==
    /\ users \in [Ids -> [coins : Funds, sanity : {DefaultSanity}]]
    /\ \A u \in Ids \ Buyers : users[u].coins = DefaultCoins
    /\ trades = <<>>
    /\ exchanges = <<>>
    /\ disputes = <<>>
    /\ blacklist = {}
    /\ levels = Levels0
    /\ fields = Fields0
    /\ restrictions = <<>>
    /\ now = 0
    /\ tasks = <<>>
    /\ conversation = [u \in Ids |-> NoConv]
    /\ answer = "none"
    /\ log = <<>>
    /\ user_messages = <<>>
    /\ control_idle

SpecFunded == InitFunded /\ [][Next]_vars

\* Reports and their rulings start from a finished trade: a listing of Drafts
\* that Spec has brought to SOLD with the proposal of the first buyer accepted.
\* The rewards of the acceptance leave both users at MaxSanity.
sold_trade(d) ==
    [user |-> Seller, coins |-> d.coins, revision |-> d.revision,
     photo |-> d.photo, status |-> SOLD, deleted |-> FALSE,
     available |-> 0, url |-> FALSE]
accepted_exchange(b) ==
    [user |-> b, trade |-> 1, coins |-> DefaultCoins, status |-> E_ACCEPTED]

InitSold ==
    /\ users = [u \in Ids |-> [coins |-> DefaultCoins, sanity |-> DefaultSanity]]
    /\ \E d \in Drafts : ~d.photo /\ trades = <<sold_trade(d)>>
    /\ exchanges = <<accepted_exchange(Seller + 1)>>
    /\ disputes = <<>>
    /\ blacklist = {}
    /\ levels = Levels0
    /\ fields = Fields0
    /\ restrictions = <<>>
    /\ now = 0
    /\ tasks = <<>>
    /\ conversation = [u \in Ids |-> NoConv]
    /\ answer = "none"
    /\ log = <<>>
    /\ user_messages = <<>>
    /\ control_idle

NextDispute ==
    \/ \E t \in TradeIds : on_violation(Admin, t)
    \/ \E u \in Buyers, t \in TradeIds : on_report(u, t)
    \/ \E u \in Users, t \in TradeIds, e \in ExchangeIds, to_trade \in BOOLEAN,
          problem \in {"no_good", "not_as_description"} :
          on_trade_report(u, t, e, to_trade, problem)
    \/ \E u \in Users : text_handler_report(u)
    \/ \E t \in TradeIds, d \in DisputeIds : on_report_accept(Admin, t, d)
    \/ \E i \in DOMAIN tasks : report_accept_finish(i)
    \/ \E t \in TradeIds, d \in DisputeIds : on_report_decline(Admin, t, d)
    \/ \E i \in DOMAIN tasks : report_decline_finish(i)

SpecDispute == InitSold /\ [][NextDispute]_vars

\* InitSold is a state of Spec
SoldReached ==
    /\ \E d \in Drafts : ~d.photo /\ trades = <<sold_trade(d)>>
    /\ exchanges = <<accepted_exchange(Seller + 1)>>
    /\ \A u \in Ids : users[u] = [coins |-> DefaultCoins, sanity |-> DefaultSanity]
    /\ tasks = <<>>

\* the administration of groups, fields and restrictions
Administrators == {Admin, Seller}
Restrictable == {{"exchange"}, {"all"}}
Assignable == {"exchange", "admin_user", "all"}

NextCap ==
    \/ \E a \in Administrators, u \in Sellers, l \in LevelNames :
          on_user_level_add(a, u, l)
    \/ \E a \in Administrators, u \in Sellers, l \in LevelNames :
          on_user_level_delete(a, u, l)
    \/ \E a \in Administrators, u \in Sellers, fs \in Restrictable, time \in 1..MaxDays :
          on_user_restriction(a, u, fs, time)
    \/ \E a \in Administrators, u \in Sellers : on_user_restriction_delete(a, u)
    \/ \E a \in Administrators, l \in LevelNames, f \in Assignable :
          on_level_field_add(a, l, f)
    \/ \E a \in Administrators, l \in LevelNames, f \in Assignable :
          on_level_field_delete(a, l, f)
    \/ day_passes

SpecCap == Init /\ [][NextCap]_vars

\* the wizards that gather a listing and a proposal
NextConv ==
    \/ \E u \in Sellers : on_new_trade(u)
    \/ \E u \in Sellers : on_trade_no_photo(u)
    \/ \E u \in Sellers, rev \in BOOLEAN : on_trade_no_start_time(u, rev)
    \/ \E u \in Buyers, t \in TradeIds : on_exchange(u, t)
    \/ \E u \in Users, m \in Messages : text_handler(u, m)
    \/ \E i \in DOMAIN tasks : exchange_submitted_finish(i)
    \/ \E i \in DOMAIN tasks : exchange_submitted_failed(i)

SpecConv == Init /\ [][NextConv]_vars

\* the price stage of the listing wizard, for a new listing and for an edited
\* one, while rulings and sales change the cap of the seller
PriceCaps ==
    {price_cap(s, h) : s \in {DefaultSanity, DefaultSanity - ViolationPenalty},
                       h \in 0..MaxTrades}
PriceMessages ==
    {Word(NameLimit), Number(0 - 1), Number(0)}
        \cup {Number(c) : c \in PriceCaps} \cup {Number(c + 1) : c \in PriceCaps}

NextPrice ==
    \/ \E u \in Sellers : on_new_trade(u)
    \/ \E u \in Sellers, t \in TradeIds : on_modify(u, t)
    \/ \E u \in Sellers, m \in PriceMessages :
          /\ conversation[u].status = "WAITING_COINS" \/ m = Word(NameLimit)
          /\ text_handler(u, m)
    \/ \E u \in Sellers : on_trade_no_photo(u)
    \/ \E u \in Sellers, rev \in BOOLEAN : on_trade_no_start_time(u, rev)
    \/ \E t \in TradeIds : on_violation(Admin, t)
    \/ \E t \in TradeIds : on_exchange_submitted(Seller + 1, t)
    \/ \E i \in DOMAIN tasks : exchange_submitted_finish(i)

SpecPrice == Init /\ [][NextPrice]_vars

\* sales of a listing that needs no revision, free or dear, while community
\* users report it
RewardPrices == {0, DearPrice}

NextReward ==
    \/ \E u \in Sellers, c \in RewardPrices : on_trade_revision(u, c, FALSE, FALSE)
    \/ \E u \in Buyers, t \in TradeIds : on_report(u, t)
    \/ \E u \in Buyers, t \in TradeIds : on_exchange_submitted(u, t)
    \/ \E i \in DOMAIN tasks : exchange_submitted_finish(i)
    \/ \E i \in DOMAIN tasks : exchange_submitted_failed(i)

SpecReward == Init /\ [][NextReward]_vars

\* the ways a user or a level comes to the field "all": the menus of the
\* administrators, one of them holding "all" and one not
Grantable == {"admin_user", "admin_admin", "all"}

NextGrant ==
    \/ \E a \in Administrators, u \in Users : content_user_level_add(a, u)
    \/ \E i \in DOMAIN tasks, l \in LevelNames : user_level_add_pressed(i, l)
    \/ \E i \in DOMAIN tasks : menu_closed(i)
    \/ \E a \in Administrators, u \in Users, l \in LevelNames :
          on_user_level_delete(a, u, l)
    \/ \E a \in Administrators, l \in LevelNames, f \in Grantable :
          on_level_field_add(a, l, f)
    \/ \E a \in Administrators, l \in LevelNames, f \in Grantable :
          on_level_field_delete(a, l, f)

SpecGrant == Init /\ [][NextGrant]_vars

\* ------------------------------------------------------------------ claims
RECURSIVE sum_coins(_, _)
sum_coins(us, S) ==
    IF S = {} THEN 0
    ELSE LET u == CHOOSE x \in S : TRUE IN us[u].coins + sum_coins(us, S \ {u})

\* C1: in every reachable state a listing has the status SOLD if and only if
\* exactly one proposal on it has the status ACCEPTED.
C1_SoldIffOneAccepted ==
    \A t \in TradeIds :
        (trades[t].status = SOLD) <=> (Cardinality(accepted_exchanges(t)) = 1)

\* C2: whatever the interleaving of submissions and owner acceptances, at most
\* one proposal of a listing is ever ACCEPTED.
C2_AtMostOneAccepted ==
    \A t \in TradeIds : Cardinality(accepted_exchanges(t)) <= 1

\* C3: an owner acceptance of an open proposal on a launched listing succeeds
\* and touches no other proposal; an acceptance that finds the listing or the
\* proposal in any other status answers that the trade is no longer available
\* and changes no proposal, listing, trust score or balance; so of two
\* acceptances on two open proposals of a listing under revision one succeeds.
C3_AcceptExclusive ==
    /\ [](\A t \in TradeIds :
             trades[t].revision => Cardinality(accepted_exchanges(t)) <= 1)
    /\ [][\A u \in Sellers, t \in TradeIds, e \in ExchangeIds :
            on_trade_accept(u, t, e) =>
                IF trades[t].status = LAUNCHED /\ exchanges[e].status = E_LAUNCHED
                THEN /\ answer' = "ok"
                     /\ trades'[t].status = SOLD
                     /\ exchanges'[e].status = E_ACCEPTED
                     /\ \A f \in ExchangeIds \ {e} : exchanges'[f] = exchanges[f]
                ELSE /\ answer' = "unavailable"
                     /\ UNCHANGED ledger]_vars

\* the second of two acceptances was turned away: one proposal of the sold
\* listing is accepted, the other is still open
C3_SecondTurnedAway ==
    \E t \in TradeIds, e, f \in ExchangeIds :
        /\ trades[t].revision /\ trades[t].status = SOLD
        /\ exchanges[e].trade = t /\ exchanges[e].status = E_ACCEPTED
        /\ exchanges[f].trade = t /\ exchanges[f].status = E_LAUNCHED
        /\ answer = "unavailable"

\* C4: the step that completes a purchase at the price p > 0 takes p from the
\* stored balance of the buyer, adds p to the stored balance of the seller,
\* makes the listing SOLD and the proposal ACCEPTED with coins = p; no other
\* step changes a stored balance.
C4_PurchaseAtomic ==
    [][/\ \A i \in DOMAIN tasks :
            (exchange_submitted_finish(i) /\ tasks[i].eobj.coins > 0) =>
                LET k == tasks[i]
                    p == k.eobj.coins
                IN /\ users'[k.a].coins = users[k.a].coins - p
                   /\ users'[k.b].coins = users[k.b].coins + p
                   /\ trades'[k.t].status = SOLD
                   /\ exchanges'[k.e].status = E_ACCEPTED
                   /\ exchanges'[k.e].coins = p
       /\ (\E u \in Ids : users'[u].coins # users[u].coins) =>
              \E i \in DOMAIN tasks :
                  exchange_submitted_finish(i) /\ tasks[i].eobj.coins > 0]_vars

C6_TrustInRange ==
    \A u \in Ids : users[u].sanity >= 0 /\ users[u].sanity <= MaxSanity

\* C7: in every reachable state every stored balance is at least zero.
C7_BalancesNonNegative ==
    \A u \in Ids : users[u].coins >= 0

\* C8: accepting or declining a report that a ruling has already been applied
\* to is answered with an error and changes nothing.
C8_RuledOnce ==
    [][\A t \in TradeIds, d \in DisputeIds :
          (/\ disputes[d].rulings >= 1
           /\ on_report_accept(Admin, t, d) \/ on_report_decline(Admin, t, d))
          => (answer' = "error" /\ UNCHANGED <<ledger, tasks>>)]_vars

\* C9: user_has_field(u, X) is false whenever a restriction of u that ends
\* after now names X or "all", whatever the groups of u; otherwise it is true
\* exactly when a group of u grants X or "all".
C9_HasField ==
    \A u \in Ids, X \in FieldNames :
        user_has_field(u, X) =
            IF \E i \in DOMAIN restrictions :
                  /\ restrictions[i].user = u
                  /\ restrictions[i].to > now
                  /\ (X \in restrictions[i].fields \/ "all" \in restrictions[i].fields)
            THEN FALSE
            ELSE \E l \in levels[u] : X \in fields[l] \/ "all" \in fields[l]

\* a user whose group grants the field has one restriction on it that has
\* ended and one that has not, and is refused the field
C9_RestrictedDespiteGroup ==
    \E u \in Users, i, j \in DOMAIN restrictions :
        /\ \E l \in levels[u] : "exchange" \in fields[l]
        /\ restrictions[i].user = u /\ restrictions[i].to <= now
        /\ "exchange" \in restrictions[i].fields
        /\ restrictions[j].user = u /\ restrictions[j].to > now
        /\ "all" \in restrictions[j].fields
        /\ ~user_has_field(u, "exchange")

\* the text m is longer than the stage allows
too_long(status, m) ==
    /\ ~m.photo
    /\ \/ status = "WAITING_TRADE_NAME" /\ m.len > NameLimit
       \/ /\ status \in {"WAITING_TRADE_DESC", "WAITING_EXCHANGE_FOR",
                          "WAITING_EXCHANGE_DESC"}
          /\ m.len > DescLimit

\* the parameter key, where it is stored, is no longer than limit
within(params, key, limit) == key \in DOMAIN params => params[key].len <= limit

\* C10: a text that is longer than the stage allows (20 for the name of a
\* listing; 100 for its description, for the item wanted and for the description
\* of a proposal) leaves the Conversation of the user at the same stage with the
\* same parameters and writes no row; no parameter stored is longer than its
\* stage allows.
C10_FailedInputDropped ==
    /\ [](\A u \in Users :
             /\ within(conversation[u].params, "trade_name", NameLimit)
             /\ within(conversation[u].params, "trade_desc", DescLimit)
             /\ within(conversation[u].params, "trade_exchange_for", DescLimit))
    /\ [][\A u \in Users, m \in Messages :
            (text_handler(u, m) /\ too_long(conversation[u].status, m)) =>
                /\ conversation' = conversation
                /\ UNCHANGED <<ledger, tasks>>]_vars

\* a description that is too long has been turned down and the name gathered
\* before it is still there
C10_AskedAgain ==
    \E u \in Users :
        /\ answer = "too long"
        /\ conversation[u].status = "WAITING_TRADE_DESC"
        /\ "trade_name" \in DOMAIN conversation[u].params

\* the database as cli.main creates it, lines 73-77: the user System alone,
\* in the level system
InitBoot ==
    /\ users = [u \in Ids |-> IF u = System
                              THEN [coins |-> DefaultCoins, sanity |-> DefaultSanity]
                              ELSE NoRow]
    /\ trades = <<>>
    /\ exchanges = <<>>
    /\ disputes = <<>>
    /\ blacklist = {}
    /\ levels = [u \in Ids |-> IF u = System THEN {"system"} ELSE {}]
    /\ fields = Fields0
    /\ restrictions = <<>>
    /\ now = 0
    /\ tasks = <<>>
    /\ conversation = [u \in Ids |-> NoConv]
    /\ answer = "none"
    /\ log = <<>>
    /\ user_messages = <<>>
    /\ control_idle

\* users met for the first time and again, and the administration of levels by
\* those of them who may
NextBoot ==
    \/ \E u \in Users : fetch_user(u)
    \/ \E a \in Users, u \in Ids, l \in LevelNames :
          resolved(a) /\ users[u] # NoRow /\ on_user_level_delete(a, u, l)
    \/ \E a \in Users, l \in LevelNames :
          resolved(a) /\ on_level_field_add(a, l, "admin_user")
    \/ \E a \in Users, l \in LevelNames :
          resolved(a) /\ on_level_field_delete(a, l, "admin_user")

SpecBoot == InitBoot /\ [][NextBoot]_vars

\* calls that the capability check turns down, of users met for the first
\* time, of users without the field and of restricted users
DeniedFields == {"admin", "exchange"}
DenyUsers == {Admin, Seller, Seller + 1}

NextDeny ==
    \/ \E u \in DenyUsers : fetch_user(u)
    \/ \E a \in DenyUsers, f \in DeniedFields : useroper_denied(a, f)
    \/ \E a \in DenyUsers, u \in DenyUsers, fs \in Restrictable :
          /\ resolved(a) /\ users[u] # NoRow
          /\ ~user_has_field(u, "all") /\ ~user_has_field(u, "admin")
          /\ on_user_restriction(a, u, fs, MaxDays)
    \/ \E a \in DenyUsers, u \in DenyUsers :
          resolved(a) /\ users[u] # NoRow /\ on_user_restriction_delete(a, u)

SpecDeny == InitBoot /\ [][NextDeny]_vars

\* rulings, proposals and declines whose notification is delivered or fails
NextNotify ==
    \/ \E u \in Sellers, d \in Drafts :
          on_trade_revision(u, d.coins, d.revision, d.photo)
    \/ \E t \in TradeIds : on_checked(Admin, t)
    \/ \E t \in TradeIds : on_checked_failed(Admin, t)
    \/ \E t \in TradeIds : on_violation(Admin, t)
    \/ \E t \in TradeIds : on_violation_failed(Admin, t)
    \/ \E u \in Buyers, t \in TradeIds : on_exchange_submitted(u, t)
    \/ \E i \in DOMAIN tasks : exchange_submitted_finish(i)
    \/ \E i \in DOMAIN tasks : exchange_submitted_failed(i)
    \/ \E u \in Sellers, t \in TradeIds, e \in ExchangeIds : on_trade_decline(u, t, e)
    \/ \E u \in Sellers, t \in TradeIds, e \in ExchangeIds :
          on_trade_decline_failed(u, t, e)

SpecNotify == Init /\ [][NextNotify]_vars

\* proposals and purchases while the owner unlists, deletes and blocks and an
\* administrator rules
NextOffer ==
    \/ \E u \in Sellers, d \in Drafts :
          on_trade_revision(u, d.coins, d.revision, d.photo)
    \/ \E u \in Sellers, t \in TradeIds : on_launch(u, t)
    \/ \E u \in Sellers, t \in TradeIds : on_delete(u, t)
    \/ \E t \in TradeIds : on_violation(Admin, t)
    \/ \E t \in TradeIds : on_exchange(Seller + 1, t)
    \/ \E u \in Buyers, t \in TradeIds : on_exchange_coin(u, t)
    \/ \E t \in TradeIds : on_contact(Seller + 1, t)
    \/ text_handler(Seller + 1, Word(NameLimit))
    \/ \E u \in Sellers, i \in DOMAIN user_messages : text_handler_reply(u, i, TRUE)
    \/ \E i \in DOMAIN tasks : exchange_submitted_finish(i)

SpecOffer == InitFunded /\ [][NextOffer]_vars

\* proposals and purchases of listings whose availability is the time of
\* their creation, on a host whose clock moves on and is set back
NextAvail ==
    \/ \E u \in Sellers, d \in Drafts :
          on_trade_revision(u, d.coins, d.revision, d.photo)
    \/ \E u \in Buyers, t \in TradeIds : on_exchange_submitted(u, t)
    \/ \E u \in Buyers, t \in TradeIds : on_exchange_coin(u, t)
    \/ \E i \in DOMAIN tasks : exchange_submitted_finish(i)
    \/ day_passes
    \/ clock_set_back

SpecAvail == InitFunded /\ [][NextAvail]_vars

\* reports after a trade and their rulings from the menu report_admin, while
\* the field admin_trade is given to the level user and taken from it
NextRuling ==
    \/ \E problem \in {"no_good", "not_as_description"} :
          \E t \in TradeIds, e \in ExchangeIds :
             on_trade_report(Seller + 1, t, e, FALSE, problem)
    \/ text_handler_report(Seller + 1)
    \/ on_level_field_add(Admin, "user", "admin_trade")
    \/ on_level_field_delete(Admin, "user", "admin_trade")
    \/ \E a \in {Admin, Seller + 2}, t \in TradeIds : content_report_admin(a, t)
    \/ \E i \in DOMAIN tasks, d \in DisputeIds : report_accept_pressed(i, d)
    \/ \E i \in DOMAIN tasks, d \in DisputeIds : report_decline_pressed(i, d)
    \/ \E i \in DOMAIN tasks : report_accept_finish(i)
    \/ \E i \in DOMAIN tasks : report_decline_finish(i)

SpecRuling == InitSold /\ [][NextRuling]_vars

\* restrictions and bans confirmed from their menus, while the field admin is
\* given to the level user and taken from it
NextRestrict ==
    \/ \E a \in Administrators, u \in Administrators : content_restriction_fields(a, u)
    \/ \E i \in DOMAIN tasks, fs \in Restrictable :
          user_restriction_pressed(i, fs, MaxDays)
    \/ \E a \in Administrators, u \in Administrators : on_user_delete(a, u)
    \/ \E i \in DOMAIN tasks : on_user_delete_confirm(i)
    \/ \E f \in {"admin", "admin_user"} : on_level_field_add(Admin, "user", f)
    \/ \E f \in {"admin", "admin_user"} : on_level_field_delete(Admin, "user", f)
    \/ \E a \in Administrators, u \in Administrators : on_user_restriction_delete(a, u)
    \/ day_passes

SpecRestrict == Init /\ [][NextRestrict]_vars

\* the conversation about a listing: contact, texts, replies and blocks
NextChat ==
    \/ \E u \in Sellers, d \in Drafts :
          on_trade_revision(u, d.coins, d.revision, d.photo)
    \/ \E u \in Buyers, t \in TradeIds : on_contact(u, t)
    \/ \E u \in Users : text_handler(u, Word(NameLimit))
    \/ \E u \in Users, i \in DOMAIN user_messages, ban \in BOOLEAN :
          text_handler_reply(u, i, ban)

SpecChat == Init /\ [][NextChat]_vars

\* The marketplace when earlier listings, whose rows are outside the bounded
\* table, have cost the seller trust: a report before a trade (line 1169), a
\* report after a trade of a listing priced 121 (line 545), a ruling (1897)
Trusts == {DefaultSanity, CheckSanity, CheckSanity - 1,
           DefaultSanity - ViolationPenalty}
InitTrust ==
    /\ users \in [Ids -> [coins : {DefaultCoins}, sanity : Trusts]]
    /\ \A u \in Ids \ Sellers : users[u].sanity = DefaultSanity
    /\ trades = <<>>
    /\ exchanges = <<>>
    /\ disputes = <<>>
    /\ blacklist = {}
    /\ levels = Levels0
    /\ fields = Fields0
    /\ restrictions = <<>>
    /\ now = 0
    /\ tasks = <<>>
    /\ conversation = [u \in Ids |-> NoConv]
    /\ answer = "none"
    /\ log = <<>>
    /\ user_messages = <<>>
    /\ control_idle

\* listings with and without a URL, launched at the end of the wizard and by
\* the toggle, while the field admin_trade is given to the level user and
\* taken from it
NextLaunch ==
    \/ \E u \in Sellers, d \in Drafts, url \in BOOLEAN :
          /\ Len(trades) < MaxTrades
          /\ on_trade_revision_create(u, d.coins, d.revision, d.photo, url)
    \/ \E u \in Sellers, t \in TradeIds : on_launch(u, t)
    \/ \E t \in TradeIds : on_checked(Admin, t)
    \/ on_level_field_add(Admin, "user", "admin_trade")
    \/ on_level_field_delete(Admin, "user", "admin_trade")

SpecLaunch == InitTrust /\ [][NextLaunch]_vars

\* the text m is an integer from 0 up to the cap of u
price_allowed(u, m) ==
    /\ m.numeric
    /\ 0 <= m.int
    /\ m.int <= price_cap(users[u].sanity, history_sold(u))

\* C11: at the price stage a text is taken as the price, and the wizard moves on
\* with it, exactly when it is an integer from 0 up to
\* (sold + 1) * 1000 * (trust / 100)^10, which is 1000 for trust 100 and no
\* sale; any other text leaves the stage and the parameters as they are and
\* writes no listing.
C11_PriceStage ==
    /\ [](price_cap(DefaultSanity, 0) = PriceCapBase)
    /\ [][\A u \in Sellers, m \in PriceMessages :
            (conversation[u].status = "WAITING_COINS" /\ text_handler(u, m)) =>
                IF price_allowed(u, m)
                THEN /\ conversation'[u].status = "WAITING_TRADE_START_TIME"
                     /\ conversation'[u].params =
                            update(conversation[u].params, [trade_coins |-> m.int])
                     /\ UNCHANGED ledger
                ELSE /\ conversation' = conversation
                     /\ UNCHANGED ledger]_vars

\* a price one above the cap of a seller whose trust has dropped was turned down
C11_AboveCapTurnedDown ==
    \E u \in Sellers :
        /\ users[u].sanity < DefaultSanity
        /\ conversation[u].status = "WAITING_COINS"
        /\ answer = "retry"

\* C12: a listing written by on_trade_revision, new or edited, has a price within
\* the cap of its owner at the moment of the write.
C12_WrittenWithinCap ==
    [][\A u \in Sellers, rev \in BOOLEAN :
          on_trade_no_start_time(u, rev) =>
              \A t \in DOMAIN trades' :
                  (t \notin DOMAIN trades \/ trades'[t] # trades[t]) =>
                      trades'[t].coins <=
                          price_cap(users[trades'[t].user].sanity,
                                    history_sold(trades'[t].user))]_vars

\* after = min(before + max(sqrt(m) / k, floor), 100), in whole numbers
gained(after, before, m, k, floor) ==
    IF m <= (floor * k) * (floor * k)
    THEN after = Min(before + floor, MaxSanity)
    ELSE IF ((MaxSanity - before) * k) * ((MaxSanity - before) * k) <= m
    THEN after = MaxSanity
    ELSE after >= before /\ ((after - before) * k) * ((after - before) * k) = m

\* C13: a proposal on a launched listing of another user that needs no revision
\* ends with the proposal ACCEPTED, the listing SOLD, the trust of the proposer
\* at min(trust + max(sqrt(max(price, 10)) / 20, 3), 100) and the trust of the
\* owner at min(trust + max(sqrt(max(price, 10)) / 5, 5), 100), the trust being
\* the one the operation started with.
C13_AutoAcceptRewards ==
    [][\A i \in DOMAIN tasks :
          exchange_submitted_finish(i) =>
              LET k == tasks[i]
                  m == Max(k.tobj.coins, MinInfluenceBase)
              IN /\ exchanges'[k.e].status = E_ACCEPTED
                 /\ trades'[k.t].status = SOLD
                 /\ gained(users'[k.a].sanity, k.aobj.sanity, m,
                           BuyerDivisor, BuyerFloor)
                 /\ gained(users'[k.b].sanity, k.bobj.sanity, m,
                           SellerDivisor, SellerFloor)]_vars

\* C14: a decline of a report raised after a trade leaves the accused, who is
\* the proposer of the accepted proposal for a report on the proposal and the
\* owner of the listing for a report on the listing, at
\* min(trust + influence, 100), the trust being the one the decline started
\* with and the influence the one the report recorded.
C14_DeclineRestores ==
    [][\A i \in DOMAIN tasks :
          (report_decline_finish(i) /\ tasks[i].dobj.type # D_VIOLATION) =>
              LET k == tasks[i]
                  accused == IF k.dobj.type \in {EXCHANGE_NO_GOOD,
                                                 EXCHANGE_NOT_AS_DESCRIPTION}
                             THEN k.eobj.user ELSE k.tobj.user
              IN /\ k.b = accused
                 /\ users'[accused].sanity =
                        Min(k.bobj.sanity + k.dobj.influence, MaxSanity)]_vars

\* a report on a listing after its trade has been declined: the owner, who lost
\* more than the influence recorded when it was raised, has that influence back
C14_OwnerRestored ==
    \E d \in DisputeIds, t \in TradeIds :
        /\ ~disputes[d].live /\ disputes[d].rulings = 1
        /\ answer = "ok" /\ tasks = <<>>
        /\ users[trades[t].user].sanity < DefaultSanity
        /\ users[trades[t].user].sanity =
               sanity_after_report(DefaultSanity, trades[t].coins)
                   + dispute_influence(trades[t].coins)

\* C15: a decline lowers the trust of the reporter, down to 0 at most, by more
\* than nothing and less than the influence of the report: for a report of a
\* violation when the decline is ruled, for a report raised after a trade by
\* the end of the decline.
C15_ReporterPenalised ==
    [][/\ \A t \in TradeIds, d \in DisputeIds :
            (/\ on_report_decline(Admin, t, d)
             /\ tasks' # tasks
             /\ disputes[d].type = D_VIOLATION) =>
                LET r == disputes[d].user
                IN /\ users'[r].sanity < users[r].sanity \/ users[r].sanity = 0
                   /\ users'[r].sanity > users[r].sanity - disputes[d].influence
       /\ \A i \in DOMAIN tasks :
            (report_decline_finish(i) /\ tasks[i].dobj.type # D_VIOLATION) =>
                LET k == tasks[i]
                IN /\ users'[k.a].sanity < k.aobj.sanity \/ k.aobj.sanity = 0
                   /\ users'[k.a].sanity > k.aobj.sanity - k.dobj.influence]_vars

\* C16: a secret is delivered only after the commit: whenever the owner holds
\* the proposer's offered secret, or the proposer the Listing's secret
\* payload, the Proposal is stored as Accepted and the Listing as Sold
C16_SecretsAfterCommit ==
    \A u \in Users, t \in DOMAIN trades, e \in DOMAIN exchanges :
        secret_delivered(u, t, e) =>
            /\ exchanges[e].status = E_ACCEPTED
            /\ trades[t].status = SOLD

\* the Conversation of u holds nothing of the wizard stage it held before
starts_anew(u, status, keys) ==
    /\ conversation'[u].status = status
    /\ DOMAIN conversation'[u].params = keys

\* C17: a gated operation that is not the text handler and passes the
\* capability check leaves its caller either without a Conversation or with the
\* one its own body starts, whatever wizard stage the caller was in, and a text
\* sent once the Conversation is gone is consumed by no stage
C17_ClearedBeforeBody ==
    [][\A u \in Users :
          /\ on_new_trade(u) => starts_anew(u, "WAITING_TRADE_NAME", {})
          /\ \A t \in TradeIds :
                on_exchange(u, t) =>
                    \/ conversation'[u] = NoConv /\ answer' = "refused"
                    \/ /\ starts_anew(u, "WAITING_EXCHANGE", {"trade_id"})
                       /\ conversation'[u].params.trade_id = t
          /\ ( /\ Len(exchanges') > Len(exchanges)
               /\ exchanges'[Len(exchanges')].user = u ) => conversation'[u] = NoConv
          /\ ( /\ Len(trades') > Len(trades)
               /\ trades'[Len(trades')].user = u ) => conversation'[u] = NoConv
          /\ \A m \in Messages :
                (conversation[u] = NoConv /\ text_handler(u, m)) =>
                    UNCHANGED <<conversation, ledger>>]_vars

\* a proposal stored by on_exchange_submitted at the end of the proposal wizard,
\* whose stage is gone
C17_WizardStageGone ==
    \E u \in Buyers, e \in DOMAIN exchanges :
        /\ exchanges[e].user = u
        /\ exchanges[e].status = E_LAUNCHED
        /\ trades[exchanges[e].trade].revision
        /\ conversation[u] = NoConv
        /\ answer = "ok"

\* the user u is in a level that has the field "all"
holds_all(u) == \E l \in levels[u] : "all" \in fields[l]

\* the administrator a, holding "all", adds a level to a user or a field to a
\* level in this step
acts_with_all(a) ==
    /\ user_has_field(a, "all")
    /\ \/ \E i \in DOMAIN tasks, l \in LevelNames :
             tasks[i].a = a /\ user_level_add_pressed(i, l)
       \/ \E l \in LevelNames, f \in Grantable : on_level_field_add(a, l, f)

\* C18: a user who comes to be in a level with the field "all", and a level
\* that comes to have the field "all", do so in a step taken by an
\* administrator who holds "all"; the holder of admin_user or admin_admin alone
\* gives it to nobody, by no field added to a level and by no level added to a
\* user
C18_AllOnlyFromAll ==
    [][/\ \A u \in Ids :
             (~holds_all(u) /\ holds_all(u)') =>
                 \E a \in Administrators : acts_with_all(a)
       /\ \A l \in LevelNames :
             ("all" \notin fields[l] /\ "all" \in fields'[l]) =>
                 \E a \in Administrators : acts_with_all(a)]_vars

\* the seller holds admin_user and admin_admin but not "all", and has the menu
\* of the levels to add to a buyer, which was just refused or lists no level
\* with "all"
C18_AdminWithoutAll ==
    /\ user_has_field(Seller, "admin_user")
    /\ user_has_field(Seller, "admin_admin")
    /\ ~user_has_field(Seller, "all")
    /\ \E i \in DOMAIN tasks :
          /\ tasks[i].kind = "__user_level_add"
          /\ tasks[i].a = Seller
          /\ tasks[i].b \in Buyers
          /\ ~holds_all(tasks[i].b)
          /\ \A l \in tasks[i].dobj : "all" \notin fields[l]

\* the users other than System that are in the level system
promoted_users == system_users(levels) \ {System}

denied_frame(a, f) ==
    useroper_denied(a, f) =>
        answer' = "denied" /\ UNCHANGED <<ledger, levels, restrictions>>

\* C20 as stated: a call turned down by the capability check changes no
\* Listing, Proposal, Dispute, balance, trust score, group membership or
\* Restriction, and is answered with the authorization error
C20_DeniedChangesNothing ==
    [][\A a \in DenyUsers, f \in DeniedFields : denied_frame(a, f)]_vars

\* C20: a call turned down by the capability check is answered with the
\* authorization error and runs no body: nothing changes but the row and the
\* membership of the level user that fetch_user gives a caller met for the
\* first time
C20_DeniedRunsNoBody ==
    [][\A a \in DenyUsers :
          /\ \A f \in DeniedFields :
                useroper_denied(a, f) =>
                    /\ answer' = "denied"
                    /\ UNCHANGED <<trades, exchanges, disputes, blacklist, fields,
                                   restrictions, tasks, conversation>>
                    /\ \A u \in Ids \ {a} :
                          users'[u] = users[u] /\ levels'[u] = levels[u]
                    /\ IF users[a] = NoRow
                       THEN /\ users'[a] = [coins |-> DefaultCoins,
                                            sanity |-> DefaultSanity]
                            /\ levels'[a] = {"user"}
                       ELSE users'[a] = users[a] /\ levels'[a] = levels[a]
          /\ ( /\ ~user_has_field(a, "admin_user")
               /\ \/ \E u \in DenyUsers, fs \in Restrictable :
                        on_user_restriction(a, u, fs, MaxDays)
                  \/ \E u \in DenyUsers : on_user_restriction_delete(a, u) ) =>
                    /\ answer' = "denied"
                    /\ UNCHANGED <<ledger, capability, tasks, conversation>>]_vars

\* a restricted user has just been turned down
C20_RestrictedTurnedDown ==
    /\ answer = "denied"
    /\ \E a \in DenyUsers :
          /\ users[a] # NoRow
          /\ active_restrictions(a) # <<>>
          /\ ~user_has_field(a, "exchange")

\* C21: an operation whose notification fails has still made its transition:
\* the approval leaves the Listing launched, the ruling leaves it in violation
\* with the trust of the owner lowered, the decline leaves the Proposal
\* declined, the automatic acceptance leaves the Proposal accepted and the
\* Listing sold
C21_FailureKeepsTransition ==
    [][/\ \A t \in TradeIds :
             /\ on_checked_failed(Admin, t) => trades'[t].status = LAUNCHED
             /\ on_violation_failed(Admin, t) =>
                    /\ trades'[t].status = VIOLATION
                    /\ users'[trades[t].user].sanity =
                           users[trades[t].user].sanity - ViolationPenalty
             /\ \A e \in ExchangeIds :
                    on_trade_decline_failed(trades[t].user, t, e) =>
                        exchanges'[e].status = E_DECLINED
       /\ \A i \in DOMAIN tasks :
             exchange_submitted_failed(i) =>
                 /\ exchanges'[tasks[i].e].status = E_ACCEPTED
                 /\ trades'[tasks[i].t].status = SOLD]_vars

\* C22: a step of an operation that changes a Listing, a Proposal or a Dispute
\* writes exactly one Log row
C22_OneAuditEntry ==
    [][(trades' # trades \/ exchanges' # exchanges \/ disputes' # disputes)
          => Len(log') = 1]_vars

\* C23: a Proposal is created, by an item proposal or by a coin purchase, only
\* against a Listing that at that moment is launched and not soft-deleted and
\* whose owner has not blocked the proposer, whatever the Listing was when the
\* proposal wizard started
C23_ProposalOnlyOnOpen ==
    [][Len(exchanges') > Len(exchanges) =>
          LET e == exchanges'[Len(exchanges')]
              t == trades[e.trade]
          IN /\ t.status = LAUNCHED
             /\ ~t.deleted
             /\ <<t.user, e.user>> \notin blacklist]_vars

\* the proposer was turned down by a launched Listing whose owner has blocked
\* the proposer, while the purchase of another user went through
C23_TurnedDownAtSubmission ==
    /\ answer = "refused"
    /\ conversation[Seller + 1] = NoConv
    /\ \E t \in TradeIds :
          /\ trades[t].status = LAUNCHED
          /\ ~trades[t].deleted
          /\ <<trades[t].user, Seller + 1>> \in blacklist
    /\ \E e \in ExchangeIds : exchanges[e].user # Seller + 1
    /\ \A e \in ExchangeIds : exchanges[e].user # Seller + 1

\* C24: a Proposal is created, by an item proposal or by a coin purchase, only
\* against a Listing whose availability timestamp is not in the future
C24_NotBeforeAvailable ==
    [][Len(exchanges') > Len(exchanges) =>
          trades[exchanges'[Len(exchanges')].trade].available <= now]_vars

\* C25: a Listing that is sold, expired, disputed or in violation, or that is
\* soft-deleted, is not brought back to pending, under review or launched
C25_ClosedStaysClosed ==
    [][\A t \in TradeIds :
          (trades[t].status >= SOLD \/ trades[t].deleted) =>
              trades'[t].status >= SOLD]_vars

\* C26: a confirmation submitted twice takes effect once: a user never has two
\* Proposals on the same Listing that were both created before either was
\* settled, and never two accepted Proposals on the same Listing
C26_SubmittedOnce ==
    \A e1, e2 \in ExchangeIds :
        ( /\ e1 # e2
          /\ exchanges[e1].user = exchanges[e2].user
          /\ exchanges[e1].trade = exchanges[e2].trade )
        => /\ ~( /\ exchanges[e1].status = E_ACCEPTED
                 /\ exchanges[e2].status = E_ACCEPTED )
           /\ ~\E i, j \in DOMAIN tasks :
                  /\ tasks[i].kind = "exchange_submitted" /\ tasks[i].e = e1
                  /\ tasks[j].kind = "exchange_submitted" /\ tasks[j].e = e2

\* C27: when the evidence text of a report has raised the Dispute, the
\* Conversation of the reporter is cleared, so that a further text of the
\* reporter raises no second Dispute
C27_ReportWizardCleared ==
    [][\A u \in Users :
          text_handler_report(u) => conversation'[u] = NoConv]_vars

\* C28: a ruling on a Dispute, acceptance or decline, is started only by a
\* user who holds admin_trade or admin_dispute at that moment
C28_RuledByAdministrator ==
    [][\A i \in DOMAIN tasks, d \in DisputeIds :
          ( /\ report_accept_pressed(i, d) \/ report_decline_pressed(i, d)
            /\ tasks' # tasks )
          => \/ user_has_field(tasks[i].a, "admin_trade")
             \/ user_has_field(tasks[i].a, "admin_dispute")]_vars

\* C29: a Restriction, timed or permanent, is written only when at that
\* moment its target is not the actor and holds neither 'all' nor 'admin'
C29_TargetCheckedAtWrite ==
    [][Len(restrictions') > Len(restrictions) =>
          LET u == restrictions'[Len(restrictions')].user
          IN /\ ~user_has_field(u, "all")
             /\ ~user_has_field(u, "admin")
             /\ \A i \in DOMAIN tasks :
                   ( \/ on_user_delete_confirm(i)
                     \/ \E fs \in Restrictable : user_restriction_pressed(i, fs, MaxDays) )
                   => tasks[i].a # u]_vars

\* C30: no text of a user is relayed to a user who has blocked the sender,
\* neither a reply to a relayed message nor a text of an open conversation
C30_BlockedNotRelayed ==
    [][Len(user_messages') > Len(user_messages) =>
          LET m == user_messages'[Len(user_messages')]
          IN <<m.to, m.from_user>> \notin blacklist]_vars

\* C31: a listing that is launched, at the end of the wizard or by the toggle
\* of its owner, comes under review if and only if the owner does not hold
\* admin_trade and the listing has a photo or a URL in its texts or the trust
\* of the owner is below 90; otherwise it is launched
C31_ReviewIffRequired ==
    [][\A t \in DOMAIN trades' :
          LET row == trades'[t]
              o == row.user
              launching ==
                  \/ t \notin TradeIds
                  \/ /\ trades[t].status = PENDING
                     /\ row.status # PENDING
                     /\ log' = <<"launch a trade">>
              review == /\ ~user_has_field(o, "admin_trade")
                        /\ \/ row.photo
                           \/ row.url
                           \/ users[o].sanity < 90
          IN launching =>
                 /\ row.status \in {CHECKING, LAUNCHED}
                 /\ row.status = CHECKING <=> review]_vars

\* the toggle of an owner of full trust sends a listing without a photo to
\* review for the URL in its texts alone
C31_EachReasonAlone ==
    \E t \in TradeIds :
        LET row == trades[t]
            s == users[row.user].sanity
        IN /\ row.status = CHECKING
           /\ row.url /\ ~row.photo /\ s >= 90
           /\ ~user_has_field(row.user, "admin_trade")
           /\ log = <<"launch a trade">>

\* the edit wizard on a listing that waits for its review, next to the toggle
\* of the owner and the approval of the reviewer
NextEdit ==
    \/ \E u \in Sellers : on_new_trade(u)
    \/ \E u \in Sellers, t \in TradeIds : on_modify(u, t)
    \/ \E u \in Sellers, m \in {Word(NameLimit), Number(0), Photo} :
          text_handler(u, m)
    \/ \E u \in Sellers : on_trade_no_photo(u)
    \/ \E u \in Sellers, rev \in BOOLEAN : on_trade_no_start_time(u, rev)
    \/ \E u \in Sellers, t \in TradeIds : on_launch(u, t)
    \/ \E t \in TradeIds : on_checked(Admin, t)

SpecEdit == Init /\ [][NextEdit]_vars

\* C32: a listing under review becomes launched in one step only by the
\* approval of a holder of admin_trade; neither the toggle nor the end of the
\* edit wizard of an owner without admin_trade launches it
C32_LaunchedByApprovalOnly ==
    [][\A t \in TradeIds :
          (trades[t].status = CHECKING /\ trades'[t].status = LAUNCHED) =>
              /\ log' = <<"check trade">>
              /\ \E a \in Ids : user_has_field(a, "admin_trade") /\ on_checked(a, t)]_vars

\* C33: a ruling of violation acts only on a listing that is launched or under
\* review, where it sets the status VIOLATION and lowers the trust of the
\* owner; on a listing of any other status it changes neither the listing nor
\* the trust of the owner
C33_RulingOnOpenOnly ==
    [][\A a \in Ids, t \in TradeIds :
          on_violation(a, t) =>
              IF trades[t].status \in {LAUNCHED, CHECKING}
              THEN /\ trades'[t].status = VIOLATION
                   /\ users'[trades[t].user].sanity < users[trades[t].user].sanity
              ELSE /\ trades'[t] = trades[t]
                   /\ users'[trades[t].user] = users[trades[t].user]]_vars

\* C34: the deletion of a listing succeeds if and only if the listing is not
\* deleted, no dispute refers to it and its status is closed (SOLD, TIMEDOUT,
\* DISPUTED or VIOLATION); otherwise the listing is unchanged
C34_DeletedIffClosed ==
    [][\A u \in Ids, t \in TradeIds :
          on_delete(u, t) =>
              IF /\ ~trades[t].deleted
                 /\ disputes_of(t) = {}
                 /\ trades[t].status \in {SOLD, TIMEDOUT, DISPUTED, VIOLATION}
              THEN trades'[t].deleted /\ answer' = "ok"
              ELSE trades'[t] = trades[t] /\ answer' = "refused"]_vars

\* C35: a purchase with coins is refused, and no balance, listing or proposal
\* changes, when the price of the listing is 0, when the listing is under
\* revision, or when the buyer has fewer coins than the price
C35_PurchaseRefused ==
    [][\A u \in Buyers, t \in TradeIds :
          ( /\ on_exchange_coin(u, t)
            /\ \/ trades[t].coins = 0
               \/ trades[t].revision
               \/ users[u].coins < trades[t].coins ) =>
              /\ answer' = "refused"
              /\ users' = users
              /\ trades' = trades
              /\ exchanges' = exchanges
              /\ tasks' = tasks]_vars

\* a buyer without coins has been refused a launched listing that is priced,
\* not under revision and open to the buyer
C35_RefusedForBalance ==
    /\ answer = "refused"
    /\ log = <<>>
    /\ exchanges = <<>>
    /\ \E u \in Buyers, t \in TradeIds :
          /\ trades[t].coins > 0
          /\ ~trades[t].revision
          /\ check_trade(trades[t], u) = "none"
          /\ users[u].coins < trades[t].coins
          /\ \E v \in Buyers : users[v].coins >= trades[t].coins

\* C36: a message of a class that the active stage does not read (a photo at
\* a stage that reads text, a text at the stage that reads a photo) is passed
\* on to the other handlers, not dropped, and the Conversation is unchanged
C36_UnreadInputPassedOn ==
    [][\A u \in Users, m \in Messages :
          ( /\ text_handler(u, m)
            /\ conversation[u].status \notin {"None", "WAITING_REPORT"}
            /\ m.photo <=> conversation[u].status # "WAITING_TRADE_PHOTO" ) =>
              /\ answer' = "passed"
              /\ conversation' = conversation]_vars

\* the listing wizard of a seller who starts it once and answers every stage
\* with a message, the availability too; a message that the active stage
\* reads is eventually sent
NextTimed ==
    \/ \E u \in Sellers : conversation[u].status = "None" /\ on_new_trade(u)
    \/ \E u \in Sellers, m \in Messages : text_handler(u, m)
    \/ \E u \in Sellers : on_trade_no_photo(u)

SpecTimed ==
    /\ Init
    /\ [][NextTimed]_vars
    /\ WF_vars(\E u \in Sellers, m \in Messages : text_handler(u, m))

\* C37: a timestamp sent as a text at the stage of the availability takes the
\* wizard on to the stage of the revision, so a wizard that is fed a text at
\* every stage ends with the listing created
C37_TimestampReachesListing ==
    \A u \in Sellers :
        (conversation[u].status = "WAITING_TRADE_START_TIME")
            ~> (\E t \in TradeIds : trades[t].user = u)

\* The control bot at its start: the first two recipients have one unread
\* message each, the last has none; the marketplace is not in use.
InitWatch ==
    /\ users = [u \in Ids |-> [coins |-> DefaultCoins, sanity |-> DefaultSanity]]
    /\ trades = <<>>
    /\ exchanges = <<>>
    /\ disputes = <<>>
    /\ blacklist = {}
    /\ levels = Levels0
    /\ fields = Fields0
    /\ restrictions = <<>>
    /\ now = 0
    /\ tasks = <<>>
    /\ conversation = [u \in Ids |-> NoConv]
    /\ answer = "none"
    /\ log = <<>>
    /\ user_messages = <<>>
    /\ clock = 0
    /\ settings \in [Recipients -> [time : Times, enabled : BOOLEAN, member : BOOLEAN]]
    /\ settings[NRecipients].enabled /\ settings[NRecipients].member
    /\ messages = [i \in 1..(NRecipients - 1) |-> [user |-> i, read |-> FALSE]]
    /\ reload = FALSE
    /\ watch = asleep(ScanSleep)
    /\ sent = <<>>

\* the loop of the deliveries; the recipient who has read everything sets the
\* time of the own deliveries while the loop waits for the time of a delivery
NextWatch ==
    \/ watch_sleep
    \/ watch_scan
    \/ watch_wait
    \/ watch_reload
    \/ watch_deliver
    \/ watch_deliver_failed
    \/ \E mtime \in Times :
          watch.pc = "wait" /\ on_change_message_time(NRecipients, mtime)

SpecWatch == InitWatch /\ [][NextWatch]_vars

\* C38: a reload while the loop waits loses no recipient: when the second of
\* the deliveries of an enabled member goes by while the loop runs, no message
\* of the member is left unread; and a message that is marked read is in a
\* menu that was sent
C38_ReloadLosesNoRecipient ==
    [][/\ \A u \in Recipients :
            ( /\ clock = settings[u].time
              /\ clock' # clock
              /\ settings[u].enabled
              /\ settings[u].member
              /\ watch.pc # "ended" ) => unread(u) = {}
       /\ \A i \in DOMAIN messages' :
            messages'[i].read =>
                \E j \in DOMAIN sent' :
                    /\ sent'[j].uid = messages'[i].user
                    /\ i \in sent'[j].messages_id]_vars

\* a seller who lists again and again: the wizard is entered through
\* on_new_trade_guide and ends with or without a photo, the toggle takes
\* listings back and launches them, and the reviewer approves
NextLimit ==
    \/ \E u \in Sellers, photo \in BOOLEAN :
          /\ Len(trades) < MaxListings
          /\ ~new_trade_refused(u)
          /\ on_trade_revision_create(u, 0, FALSE, photo, FALSE)
    \/ \E u \in Sellers, t \in TradeIds : on_launch(u, t)
    \/ \E t \in TradeIds : on_checked(Admin, t)

SpecLimit == Init /\ [][NextLimit]_vars

\* C39: a user never has more than 5 launched listings that are not deleted,
\* whether they were launched by the wizard, the toggle or the approval
C39_AtMostFiveLaunched ==
    \A u \in Ids :
        Cardinality({t \in TradeIds : /\ trades[t].user = u
                                      /\ trades[t].status = LAUNCHED
                                      /\ ~trades[t].deleted}) <= 5

\* the menus of the restriction and of the ban, opened for a user and
\* answered later, while levels are given to users and taken from them and
\* fields are taken from levels
NextAll ==
    \/ \E a \in Administrators, u \in Administrators : content_restriction_fields(a, u)
    \/ \E i \in DOMAIN tasks, fs \in Restrictable :
          user_restriction_pressed(i, fs, MaxDays)
    \/ \E a \in Administrators, u \in Administrators : on_user_delete(a, u)
    \/ \E i \in DOMAIN tasks : on_user_delete_confirm(i)
    \/ \E a \in Administrators, u \in Administrators, l \in LevelNames :
          on_user_level_add(a, u, l)
    \/ \E a \in Administrators, u \in Administrators, l \in LevelNames :
          on_user_level_delete(a, u, l)
    \/ \E a \in Administrators, l \in LevelNames, f \in {"all", "admin_user"} :
          on_level_field_delete(a, l, f)
    \/ on_level_field_add(Admin, "user", "admin_user")

SpecAll == Init /\ [][NextAll]_vars

====
